---- MODULE Spec2Model ----
(***************************************************************************)
(* OPC UA PubSub for MicroPython: the UADP binary codec (opcua_uadp.py),   *)
(* its NetworkMessage framing and the publisher facade.                    *)
(*                                                                         *)
(* Python objects are records [k, neg, d]:                                 *)
(*   k = "int"    neg is the sign, d the magnitude written in base 256,    *)
(*                most significant digit first, no leading zero (0 = <<>>) *)
(*   k = "bool"   d = <<0>> or <<1>>                                       *)
(*   k = "str"    d = the Unicode code points of the text                  *)
(*   k = "bytes"  d = the bytes                                            *)
(*   k = "none"   d = <<>>                                                 *)
(* Python integers are unbounded, so they are kept as digit strings; byte  *)
(* offsets, lengths and counters stay below 2^31 and are plain integers.   *)
(* A byte string is a sequence of 0..255, indexed from 1 (Python: from 0). *)
(***************************************************************************)
EXTENDS Integers, Sequences, FiniteSets, TLC

VARIABLES
    val, typ, buf, off, res, src,            \* scalar codec: input, output
    msg, wire, decoded, stage,               \* NetworkMessage codec
    publisher_id, connected, message_count, bytes_sent,    \* UADPPublisher fields
    mqtt, ret, op,                           \* transport log, last call
    ds_msg, ds_bytes, ds_read, ds_stage,         \* UADPDataSetMessage codec
    dv_in, dv_opts, dv_out, dv_back, dv_stage,  \* DataValue codecs
    pc, local, sent,                         \* publish calls in progress
    wire_min, snap, twin,                    \* repeated and paired encoder calls
    sub, feed,                               \* UADPSubscriber, what was delivered to it
    cls                                      \* class of the facade the calls are made on

scalarVars == <<val, typ, buf, off, res, src>>
netVars == <<msg, wire, decoded, stage>>
pubVars == <<publisher_id, connected, message_count, bytes_sent, mqtt, ret, op>>
dsVars == <<ds_msg, ds_bytes, ds_read, ds_stage>>
dvVars == <<dv_in, dv_opts, dv_out, dv_back, dv_stage>>
raceVars == <<pc, local, sent>>
moreVars == <<wire_min, snap, twin, sub, feed, cls>>
extVars == <<dsVars, dvVars, raceVars, moreVars>>
vars == <<val, typ, buf, off, res, src, msg, wire, decoded, stage,
          publisher_id, connected, message_count, bytes_sent, mqtt, ret, op,
          ds_msg, ds_bytes, ds_read, ds_stage, dv_in, dv_opts, dv_out, dv_back, dv_stage,
          pc, local, sent, wire_min, snap, twin, sub, feed, cls>>

---------------------------------------------------------------------------
(* Bounds of the model *)

MaxStrLen == 2
MaxBufLen == 5
MaxPubIdLen == 1
MaxDataSets == 2
MaxFrameLen == 4
MaxPrefix == 24
MaxPublishes == 4
MaxWrapCount == 65538
MaxFields == 5
MaxSmallInt == 130
MaxRaceSent == 3
MaxTwinFields == 2
MaxCalls == 3
MaxDeliveries == 2
MaxLostAt == 2

---------------------------------------------------------------------------
(* Python objects *)

Obj(k, neg, d) == [k |-> k, neg |-> neg, d |-> d]
NoneV == Obj("none", FALSE, <<>>)
Bool(b) == Obj("bool", FALSE, <<IF b THEN 1 ELSE 0>>)
Str(cps) == Obj("str", FALSE, cps)
Bytes(bs) == Obj("bytes", FALSE, bs)
Wide(neg, d) == Obj("int", neg, d)

RECURSIVE Digits(_)
Digits(n) == IF n = 0 THEN <<>> ELSE Append(Digits(n \div 256), n % 256)

Num(n) == Obj("int", n < 0, Digits(IF n < 0 THEN 0 - n ELSE n))

RECURSIVE ToNat(_)
ToNat(d) == IF d = <<>> THEN 0 ELSE ToNat(SubSeq(d, 1, Len(d) - 1)) * 256 + d[Len(d)]

RECURSIVE Strip(_)
Strip(d) == IF d # <<>> /\ Head(d) = 0 THEN Strip(Tail(d)) ELSE d

RECURSIVE LexLt(_, _)
LexLt(a, b) ==
    IF a = <<>> THEN FALSE
    ELSE IF Head(a) # Head(b) THEN Head(a) < Head(b)
    ELSE LexLt(Tail(a), Tail(b))

MagLt(a, b) == Len(a) < Len(b) \/ (Len(a) = Len(b) /\ LexLt(a, b))

\* x < y and x <= y on Python integers
IntLt(x, y) ==
    IF x.neg # y.neg THEN x.neg
    ELSE IF x.neg THEN MagLt(y.d, x.d) ELSE MagLt(x.d, y.d)
IntLe(x, y) == x = y \/ IntLt(x, y)

\* bool is a subclass of int: True packs and compares as 1
AsInt(v) == IF v.k = "bool" THEN Obj("int", FALSE, Strip(v.d)) ELSE v
IsInt(v) == v.k \in {"int", "bool"}

Min(a, b) == IF a < b THEN a ELSE b
Max(a, b) == IF a > b THEN a ELSE b
Reverse(s) == [i \in 1..Len(s) |-> s[Len(s) + 1 - i]]
BoundedSeq(S, n) == UNION {[1..k -> S] : k \in 0..n}

\* data[a:b] clamps to the buffer instead of failing
Slice(data, a, b) == SubSeq(data, a + 1, Min(b, Len(data)))

---------------------------------------------------------------------------
(* ustruct.pack / ustruct.unpack_from, little-endian *)

\* An encoder that raised: no bytes were produced.
Raise == <<-1>>
Cat2(a, b) == IF a = Raise \/ b = Raise THEN Raise ELSE a \o b
Cat3(a, b, c) == Cat2(Cat2(a, b), c)

Pad(d, w) == [i \in 1..w |-> IF i <= w - Len(d) THEN 0 ELSE d[i - (w - Len(d))]]
Inv(d) == [i \in 1..Len(d) |-> 255 - d[i]]

RECURSIVE Inc(_)
Inc(d) ==
    IF d = <<>> THEN <<>>
    ELSE IF d[Len(d)] < 255 THEN [d EXCEPT ![Len(d)] = d[Len(d)] + 1]
    ELSE Append(Inc(SubSeq(d, 1, Len(d) - 1)), 0)

\* the value fits the format: w bytes, two's complement when signed
Fits(v, w, signed) ==
    /\ Len(v.d) <= w
    /\ IF ~signed THEN ~v.neg
       ELSE \/ Pad(v.d, w)[1] < 128
            \/ v.neg /\ Pad(v.d, w) = [i \in 1..w |-> IF i = 1 THEN 128 ELSE 0]

\* ustruct.pack('<b|B|h|H|i|I|q|Q', value): callers pass values that fit
PackBE(v, w, signed) == IF v.neg THEN Inc(Inv(Pad(v.d, w))) ELSE Pad(v.d, w)

PackNoReverse(value, w, signed) ==
    IF ~IsInt(value) \/ ~Fits(AsInt(value), w, signed) THEN Raise
    ELSE PackBE(AsInt(value), w, signed)

Pack(value, w, signed) ==
    IF ~IsInt(value) \/ ~Fits(AsInt(value), w, signed) THEN Raise
    ELSE Reverse(PackBE(AsInt(value), w, signed))

\* the integer held by the w little-endian bytes bs
Unpack(bs, signed) ==
    LET be == Reverse(bs) IN
    IF signed /\ be[1] >= 128 THEN Wide(TRUE, Strip(Inc(Inv(be))))
    ELSE Wide(FALSE, Strip(be))

\* Results of the decoders: a value and the new offset, or an exception.
\* rd is one past the highest byte of the buffer the call looked at.
Ok(v, o, rd) == [st |-> "ok", why |-> "", v |-> v, off |-> o, rd |-> rd]
Fail(why, rd) == [st |-> "raise", why |-> why, v |-> NoneV, off |-> 0 - 1, rd |-> rd]

\* ustruct.unpack_from(fmt, data, offset)[0]
unpack_from(data, offset, w, signed) ==
    IF offset + w > Len(data) THEN Fail("buffer too small", Min(offset, Len(data)))
    ELSE Ok(Unpack(SubSeq(data, offset + 1, offset + w), signed), offset + w, offset + w)

---------------------------------------------------------------------------
(* str.encode('utf-8') / bytes.decode('utf-8') *)

Utf8Char(c) ==
    IF c < 128 THEN <<c>>
    ELSE IF c < 2048 THEN <<192 + (c \div 64), 128 + (c % 64)>>
    ELSE IF c < 65536
         THEN <<224 + (c \div 4096), 128 + ((c \div 64) % 64), 128 + (c % 64)>>
    ELSE <<240 + (c \div 262144), 128 + ((c \div 4096) % 64),
           128 + ((c \div 64) % 64), 128 + (c % 64)>>

RECURSIVE Utf8Encode(_)
Utf8Encode(s) == IF s = <<>> THEN <<>> ELSE Utf8Char(Head(s)) \o Utf8Encode(Tail(s))

Invalid == <<-1>>

RECURSIVE Utf8Decode(_)
Utf8Decode(b) ==
    IF b = <<>> THEN <<>>
    ELSE LET h == Head(b)
             n == IF h < 128 THEN 1
                  ELSE IF h >= 192 /\ h < 224 THEN 2
                  ELSE IF h >= 224 /\ h < 240 THEN 3
                  ELSE IF h >= 240 /\ h < 248 THEN 4
                  ELSE 0
         IN IF n = 0 \/ Len(b) < n \/ (\E i \in 2..n : b[i] < 128 \/ b[i] >= 192)
            THEN Invalid
            ELSE LET cp == IF n = 1 THEN h
                           ELSE IF n = 2 THEN (h - 192) * 64 + (b[2] - 128)
                           ELSE IF n = 3 THEN (h - 224) * 4096 + (b[2] - 128) * 64
                                              + (b[3] - 128)
                           ELSE (h - 240) * 262144 + (b[2] - 128) * 4096
                                + (b[3] - 128) * 64 + (b[4] - 128)
                     rest == Utf8Decode(SubSeq(b, n + 1, Len(b)))
                 IN IF rest = Invalid THEN Invalid ELSE <<cp>> \o rest

---------------------------------------------------------------------------
(* OPCUATypes *)

T_BOOLEAN == 1
T_SBYTE == 2
T_BYTE == 3
T_INT16 == 4
T_UINT16 == 5
T_INT32 == 6
T_UINT32 == 7
T_INT64 == 8
T_UINT64 == 9
T_FLOAT == 10
T_DOUBLE == 11
T_STRING == 12
T_DATETIME == 13
T_GUID == 14
T_BYTESTRING == 15
\* type_id=None: the caller gave no type
TypeNone == 0 - 1

from_python_int_first(value) ==
    IF IsInt(value) THEN
        IF IntLe(Num(0 - 128), AsInt(value)) /\ IntLe(AsInt(value), Num(127)) THEN T_SBYTE
        ELSE IF IntLe(Num(0 - 32768), AsInt(value)) /\ IntLe(AsInt(value), Num(32767))
        THEN T_INT16
        ELSE IF IntLe(Wide(TRUE, <<128, 0, 0, 0>>), AsInt(value))
                /\ IntLe(AsInt(value), Wide(FALSE, <<127, 255, 255, 255>>)) THEN T_INT32
        ELSE T_INT64
    ELSE IF value.k = "float" THEN T_FLOAT
    ELSE IF value.k = "str" THEN T_STRING
    ELSE IF value.k = "bytes" THEN T_BYTESTRING
    ELSE T_STRING

from_python(value) ==
    IF value.k = "bool" THEN T_BOOLEAN
    ELSE IF value.k = "int" THEN
        IF IntLe(Num(0 - 128), value) /\ IntLe(value, Num(127)) THEN T_SBYTE
        ELSE IF IntLe(Num(0 - 32768), value) /\ IntLe(value, Num(32767)) THEN T_INT16
        ELSE IF IntLe(Wide(TRUE, <<128, 0, 0, 0>>), value)
                /\ IntLe(value, Wide(FALSE, <<127, 255, 255, 255>>)) THEN T_INT32
        ELSE T_INT64
    ELSE IF value.k = "float" THEN T_FLOAT
    ELSE IF value.k = "str" THEN T_STRING
    ELSE IF value.k = "bytes" THEN T_BYTESTRING
    ELSE T_STRING

---------------------------------------------------------------------------
(* UADPEncoder *)

\* truth value of a Python object
Truthy(value) == IF value.k = "bool" THEN value.d = <<1>> ELSE value.d # <<>>

encode_boolean(value) == Pack(Num(IF Truthy(value) THEN 1 ELSE 0), 1, FALSE)
encode_sbyte(value) == Pack(value, 1, TRUE)
encode_byte(value) == Pack(value, 1, FALSE)
encode_int16(value) == Pack(value, 2, TRUE)
encode_uint16(value) == Pack(value, 2, FALSE)
encode_int32(value) == Pack(value, 4, TRUE)
encode_uint32(value) == Pack(value, 4, FALSE)
encode_int64(value) == Pack(value, 8, TRUE)
encode_uint64(value) == Pack(value, 8, FALSE)

encode_string(value) ==
    IF value = NoneV THEN Pack(Num(0 - 1), 4, TRUE)
    ELSE IF value.k # "str" THEN Raise
    ELSE LET encoded == Utf8Encode(value.d)
         IN Pack(Num(Len(encoded)), 4, TRUE) \o encoded

\* the clock reading encode_datetime falls back to: (time.time() + 946684800
\* + 11644473600) * 10^7 at some instant
ClockFiletime == Wide(FALSE, <<1, 220, 74, 155, 96, 0, 0, 0>>)

encode_datetime(timestamp) ==
    IF timestamp = NoneV THEN Pack(ClockFiletime, 8, FALSE)
    ELSE Pack(timestamp, 8, FALSE)

encode_bytestring(value) ==
    IF value = NoneV THEN Pack(Num(0 - 1), 4, TRUE)
    ELSE IF value.k # "bytes" THEN Raise
    ELSE Pack(Num(Len(value.d)), 4, TRUE) \o value.d

\* A float is kept as its IEEE 754 bits, most significant byte first: 4 bytes for
\* a value held in single precision, 8 bytes for a double.
encode_float(value) == IF value.k = "float" /\ Len(value.d) = 4 THEN Reverse(value.d) ELSE Raise
encode_double(value) == IF value.k = "float" /\ Len(value.d) = 8 THEN Reverse(value.d) ELSE Raise

encode_status_code(code) == Pack(code, 4, FALSE)

RECURSIVE DivMod10(_, _, _)
DivMod10(d, r, q) ==
    IF d = <<>> THEN <<q, r>>
    ELSE DivMod10(Tail(d), (r * 256 + Head(d)) % 10, Append(q, (r * 256 + Head(d)) \div 10))

RECURSIVE DecDigits(_)
DecDigits(d) ==
    IF d = <<>> THEN <<>>
    ELSE Append(DecDigits(Strip(DivMod10(d, 0, <<>>)[1])), 48 + DivMod10(d, 0, <<>>)[2])

\* str(value): text as is, integers in decimal, None, True, False
\* (bytes and float objects never reach it in this model)
PyStr(value) ==
    IF value.k = "str" THEN value
    ELSE IF value.k = "int"
         THEN Str((IF value.neg THEN <<45>> ELSE <<>>)
                  \o (IF value.d = <<>> THEN <<48>> ELSE DecDigits(value.d)))
    ELSE IF value.k = "none" THEN Str(<<78, 111, 110, 101>>)
    ELSE IF value.k = "bool"
         THEN IF value.d = <<1>> THEN Str(<<84, 114, 117, 101>>)
              ELSE Str(<<70, 97, 108, 115, 101>>)
    ELSE Str(<<63>>)

encode_value(value, type_id) ==
    LET t == IF type_id = TypeNone THEN from_python(value) ELSE type_id IN
    CASE t = T_BOOLEAN -> encode_boolean(value)
      [] t = T_SBYTE -> encode_sbyte(value)
      [] t = T_BYTE -> encode_byte(value)
      [] t = T_INT16 -> encode_int16(value)
      [] t = T_UINT16 -> encode_uint16(value)
      [] t = T_INT32 -> encode_int32(value)
      [] t = T_UINT32 -> encode_uint32(value)
      [] t = T_INT64 -> encode_int64(value)
      [] t = T_UINT64 -> encode_uint64(value)
      [] t = T_FLOAT -> encode_float(value)
      [] t = T_DOUBLE -> encode_double(value)
      [] t = T_STRING -> encode_string(value)
      [] t = T_DATETIME -> encode_datetime(value)
      [] t = T_BYTESTRING -> encode_bytestring(value)
      [] OTHER -> encode_string(PyStr(value))

---------------------------------------------------------------------------
(* UADPDecoder *)

decode_fixed(data, offset, w, signed) == unpack_from(data, offset, w, signed)

decode_boolean(data, offset) ==
    LET u == unpack_from(data, offset, 1, FALSE) IN
    IF u.st = "raise" THEN u ELSE Ok(Bool(u.v # Num(0)), offset + 1, u.rd)

decode_sbyte(data, offset) == decode_fixed(data, offset, 1, TRUE)
decode_byte(data, offset) == decode_fixed(data, offset, 1, FALSE)
decode_int16(data, offset) == decode_fixed(data, offset, 2, TRUE)
decode_uint16(data, offset) == decode_fixed(data, offset, 2, FALSE)
decode_int32(data, offset) == decode_fixed(data, offset, 4, TRUE)
decode_uint32(data, offset) == decode_fixed(data, offset, 4, FALSE)
decode_int64(data, offset) == decode_fixed(data, offset, 8, TRUE)
decode_uint64(data, offset) == decode_fixed(data, offset, 8, FALSE)
decode_datetime(data, offset) == decode_fixed(data, offset, 8, FALSE)

decode_float(data, offset) ==
    LET u == unpack_from(data, offset, 4, FALSE) IN
    IF u.st = "raise" THEN u
    ELSE Ok(Obj("float", FALSE, Reverse(SubSeq(data, offset + 1, offset + 4))), offset + 4, u.rd)

decode_double(data, offset) ==
    LET u == unpack_from(data, offset, 8, FALSE) IN
    IF u.st = "raise" THEN u
    ELSE Ok(Obj("float", FALSE, Reverse(SubSeq(data, offset + 1, offset + 8))), offset + 8, u.rd)

decode_string_nonull(data, offset) ==
    LET u == unpack_from(data, offset, 4, TRUE) IN
    IF u.st = "raise" THEN u
    ELSE LET length == IF u.v.neg THEN 0 ELSE ToNat(u.v.d)
             raw == Slice(data, offset + 4, offset + 4 + length)
             text == Utf8Decode(raw)
         IN IF text = Invalid THEN Fail("UnicodeError", offset + 4 + Len(raw))
            ELSE Ok(Str(text), offset + 4 + length, offset + 4 + Len(raw))

decode_string(data, offset) ==
    LET u == unpack_from(data, offset, 4, TRUE) IN
    IF u.st = "raise" THEN u
    ELSE IF u.v.neg THEN Ok(NoneV, offset + 4, offset + 4)
    ELSE LET length == ToNat(u.v.d)
             raw == Slice(data, offset + 4, offset + 4 + length)
             text == Utf8Decode(raw)
         IN IF text = Invalid THEN Fail("UnicodeError", offset + 4 + Len(raw))
            ELSE Ok(Str(text), offset + 4 + length, offset + 4 + Len(raw))

decode_bytestring(data, offset) ==
    LET u == unpack_from(data, offset, 4, TRUE) IN
    IF u.st = "raise" THEN u
    ELSE IF u.v.neg THEN Ok(NoneV, offset + 4, offset + 4)
    ELSE LET length == ToNat(u.v.d)
             raw == Slice(data, offset + 4, offset + 4 + length)
         IN Ok(Bytes(raw), offset + 4 + length, offset + 4 + Len(raw))

decode_value_string_fallback(data, type_id, offset) ==
    CASE type_id = T_BOOLEAN -> decode_boolean(data, offset)
      [] type_id = T_SBYTE -> decode_sbyte(data, offset)
      [] type_id = T_BYTE -> decode_byte(data, offset)
      [] type_id = T_INT16 -> decode_int16(data, offset)
      [] type_id = T_UINT16 -> decode_uint16(data, offset)
      [] type_id = T_INT32 -> decode_int32(data, offset)
      [] type_id = T_UINT32 -> decode_uint32(data, offset)
      [] type_id = T_INT64 -> decode_int64(data, offset)
      [] type_id = T_UINT64 -> decode_uint64(data, offset)
      [] type_id = T_FLOAT -> decode_float(data, offset)
      [] type_id = T_DOUBLE -> decode_double(data, offset)
      [] type_id = T_STRING -> decode_string(data, offset)
      [] type_id = T_DATETIME -> decode_datetime(data, offset)
      [] type_id = T_BYTESTRING -> decode_bytestring(data, offset)
      [] OTHER -> decode_string(data, offset)

\* UADPDecoder.decode_value; a tag without a decoder raises ValueError
decode_value(data, type_id, offset) ==
    CASE type_id = T_BOOLEAN -> decode_boolean(data, offset)
      [] type_id = T_SBYTE -> decode_sbyte(data, offset)
      [] type_id = T_BYTE -> decode_byte(data, offset)
      [] type_id = T_INT16 -> decode_int16(data, offset)
      [] type_id = T_UINT16 -> decode_uint16(data, offset)
      [] type_id = T_INT32 -> decode_int32(data, offset)
      [] type_id = T_UINT32 -> decode_uint32(data, offset)
      [] type_id = T_INT64 -> decode_int64(data, offset)
      [] type_id = T_UINT64 -> decode_uint64(data, offset)
      [] type_id = T_FLOAT -> decode_float(data, offset)
      [] type_id = T_DOUBLE -> decode_double(data, offset)
      [] type_id = T_STRING -> decode_string(data, offset)
      [] type_id = T_DATETIME -> decode_datetime(data, offset)
      [] type_id = T_BYTESTRING -> decode_bytestring(data, offset)
      [] OTHER -> Fail("unsupported type", 0)

---------------------------------------------------------------------------
(* UADPFlags, UADPDataSetFlags, StatusCode *)

VERSION == 1
VERSION_MASK == 15
PUBLISHER_ID_ENABLED == 16
GROUP_HEADER_ENABLED == 32
PAYLOAD_HEADER_ENABLED == 64
PUBLISHER_ID_BYTE == 0
PUBLISHER_ID_UINT16 == 1
PUBLISHER_ID_UINT32 == 2
PUBLISHER_ID_STRING == 4
VALID == 1
FIELD_ENCODING_VARIANT == 0
FIELD_ENCODING_RAWDATA == 1
SEQUENCE_NUMBER_ENABLED == 8
SEQ_MASK == 65535

\* a & b and a | b on non-negative integers
RECURSIVE BitAnd(_, _)
BitAnd(a, b) ==
    IF a = 0 \/ b = 0 THEN 0
    ELSE (a % 2) * (b % 2) + 2 * BitAnd(a \div 2, b \div 2)

RECURSIVE BitOr(_, _)
BitOr(a, b) ==
    IF a = 0 THEN b
    ELSE IF b = 0 THEN a
    ELSE Max(a % 2, b % 2) + 2 * BitOr(a \div 2, b \div 2)

\* bytearray.append(x): x must be a byte
ByteOf(x) == IF x \in 0..255 THEN <<x>> ELSE Raise

---------------------------------------------------------------------------
(* StatusCode (the same class in opcua_uadp.py and opcua_pubsub.py) *)

GOOD == Num(0)
UNCERTAIN == Wide(FALSE, <<64, 0, 0, 0>>)
BAD == Wide(FALSE, <<128, 0, 0, 0>>)
BAD_SENSOR_FAILURE == Wide(FALSE, <<128, 177, 0, 0>>)

\* (code & 0xC0000000) >> 30 for a non-negative code
SeverityBits(code) ==
    LET d == Pad(code.d, Max(4, Len(code.d))) IN d[Len(d) - 3] \div 64
is_good(code) == SeverityBits(code) = 0

\* a != b for a Python object a and an integer b
NotEqual(a, b) == IF IsInt(a) THEN AsInt(a) # b ELSE TRUE

---------------------------------------------------------------------------
(* UADPDataValue *)

\* __init__: type_id or OPCUATypes.from_python(value)
UADPDataValue(value, type_id, status_code, source_timestamp) ==
    [k |-> "UADPDataValue", value |-> value,
     type_id |-> IF type_id = TypeNone \/ type_id = 0 THEN from_python(value) ELSE type_id,
     status_code |-> status_code, source_timestamp |-> source_timestamp]

\* the encoding mask of UADPDataValue.encode
EncodingMask(self, include_status, include_timestamp) ==
    BitOr(BitOr(1, IF include_status /\ NotEqual(self.status_code, GOOD) THEN 2 ELSE 0),
          IF include_timestamp THEN 4 ELSE 0)

dv_encode_timestamp_first(self, include_status, include_timestamp) ==
    LET mask == EncodingMask(self, include_status, include_timestamp) IN
    Cat2(Cat2(<<mask>>, encode_value(self.value, self.type_id)),
         Cat2(IF BitAnd(mask, 4) # 0 THEN encode_datetime(self.source_timestamp) ELSE <<>>,
              IF BitAnd(mask, 2) # 0 THEN encode_status_code(self.status_code) ELSE <<>>))

\* UADPDataValue.encode
dv_encode(self, include_status, include_timestamp) ==
    LET mask == EncodingMask(self, include_status, include_timestamp) IN
    Cat2(Cat2(<<mask>>, encode_value(self.value, self.type_id)),
         Cat2(IF BitAnd(mask, 2) # 0 THEN encode_status_code(self.status_code) ELSE <<>>,
              IF BitAnd(mask, 4) # 0 THEN encode_datetime(self.source_timestamp) ELSE <<>>))

NoDataValue == [st |-> "raise", dv |-> NoneV, off |-> 0 - 1]

\* the optional reads of UADPDataValue.decode, each from where the last ended
DecodePart(present, r, data, offset, absent) ==
    IF ~present THEN Ok(absent, offset, 0) ELSE r

dv_decode_timestamp_first(data, type_id, offset) ==
    IF offset >= Len(data) THEN NoDataValue
    ELSE LET mask == data[offset + 1]
             v == DecodePart(BitAnd(mask, 1) # 0, decode_value(data, type_id, offset + 1),
                             data, offset + 1, NoneV)
         IN IF v.st = "raise" THEN NoDataValue
            ELSE LET t == DecodePart(BitAnd(mask, 4) # 0, decode_datetime(data, v.off),
                                     data, v.off, NoneV)
                 IN IF t.st = "raise" THEN NoDataValue
                    ELSE LET c == DecodePart(BitAnd(mask, 2) # 0,
                                             decode_uint32(data, t.off), data, t.off, GOOD)
                         IN IF c.st = "raise" THEN NoDataValue
                            ELSE [st |-> "ok",
                                  dv |-> UADPDataValue(v.v, type_id, c.v, t.v),
                                  off |-> c.off]

\* UADPDataValue.decode
dv_decode(data, type_id, offset) ==
    IF offset >= Len(data) THEN NoDataValue
    ELSE LET mask == data[offset + 1]
             v == DecodePart(BitAnd(mask, 1) # 0, decode_value(data, type_id, offset + 1),
                             data, offset + 1, NoneV)
         IN IF v.st = "raise" THEN NoDataValue
            ELSE LET c == DecodePart(BitAnd(mask, 2) # 0, decode_uint32(data, v.off),
                                     data, v.off, GOOD)
                 IN IF c.st = "raise" THEN NoDataValue
                    ELSE LET t == DecodePart(BitAnd(mask, 4) # 0,
                                             decode_datetime(data, c.off), data, c.off, NoneV)
                         IN IF t.st = "raise" THEN NoDataValue
                            ELSE [st |-> "ok",
                                  dv |-> UADPDataValue(v.v, type_id, c.v, t.v),
                                  off |-> t.off]

---------------------------------------------------------------------------
(* UADPDataSetMessage *)

Field(name, value, type_id) == [name |-> name, value |-> value, type_id |-> type_id]

\* __init__ followed by add_field for each entry
DataSetMessage(dataset_writer_id, sequence_number, fields) ==
    [dataset_writer_id |-> dataset_writer_id,
     sequence_number |-> sequence_number,
     fields |-> fields,
     field_encoding |-> FIELD_ENCODING_RAWDATA]

add_field(name, value, type_id) ==
    Field(name, value, IF type_id = TypeNone THEN from_python(value) ELSE type_id)

RECURSIVE EncodeFields_name_marks(_)
EncodeFields_name_marks(fields) ==
    IF fields = <<>> THEN <<>>
    ELSE Cat3(<<IF Head(fields).name = "temperature" THEN 1 ELSE 0>>,
              encode_value(Head(fields).value, Head(fields).type_id),
              EncodeFields_name_marks(Tail(fields)))

\* the loop of UADPDataSetMessage.encode over the fields
RECURSIVE EncodeFields(_)
EncodeFields(fields) ==
    IF fields = <<>> THEN <<>>
    ELSE Cat2(encode_value(Head(fields).value, Head(fields).type_id),
              EncodeFields(Tail(fields)))

ds_encode_byte_mask(ds) ==
    Cat3(<<BitOr(BitOr(VALID, ds.field_encoding * 2), SEQUENCE_NUMBER_ENABLED), 0>>,
         Pack(Num(BitAnd(ds.sequence_number, 255)), 2, FALSE),
         EncodeFields(ds.fields))

\* UADPDataSetMessage.encode
ds_encode(ds) ==
    Cat3(<<BitOr(BitOr(VALID, ds.field_encoding * 2), SEQUENCE_NUMBER_ENABLED), 0>>,
         Pack(Num(BitAnd(ds.sequence_number, SEQ_MASK)), 2, FALSE),
         EncodeFields(ds.fields))

RECURSIVE EncodeVariantFields(_)
EncodeVariantFields(fields) ==
    IF fields = <<>> THEN <<>>
    ELSE Cat3(IF Head(fields).type_id \in 0..255 THEN <<Head(fields).type_id>> ELSE Raise,
              encode_value(Head(fields).value, Head(fields).type_id),
              EncodeVariantFields(Tail(fields)))

ds_encode_with_types_raw_flag(ds) ==
    Cat3(<<BitOr(BitOr(VALID, FIELD_ENCODING_RAWDATA * 2), SEQUENCE_NUMBER_ENABLED), 0>>,
         Cat2(Pack(Num(BitAnd(ds.sequence_number, SEQ_MASK)), 2, FALSE),
              Pack(Num(Len(ds.fields)), 2, FALSE)),
         EncodeVariantFields(ds.fields))

ds_encode_with_types_no_count(ds) ==
    Cat3(<<BitOr(BitOr(VALID, FIELD_ENCODING_VARIANT * 2), SEQUENCE_NUMBER_ENABLED), 0>>,
         Pack(Num(BitAnd(ds.sequence_number, SEQ_MASK)), 2, FALSE),
         EncodeVariantFields(ds.fields))

\* UADPDataSetMessage.encode_with_types
ds_encode_with_types(ds) ==
    Cat3(<<BitOr(BitOr(VALID, FIELD_ENCODING_VARIANT * 2), SEQUENCE_NUMBER_ENABLED), 0>>,
         Cat2(Pack(Num(BitAnd(ds.sequence_number, SEQ_MASK)), 2, FALSE),
              Pack(Num(Len(ds.fields)), 2, FALSE)),
         EncodeVariantFields(ds.fields))

\* A receiver of the Variant form: 4 header bytes, the UInt16 field count, then
\* per field the type tag data[offset] and decode_value with that tag.
RECURSIVE ReadVariantFields(_, _, _, _)
ReadVariantFields(data, n, offset, acc) ==
    IF n = 0 THEN [st |-> "ok", count |-> Len(acc), fields |-> acc, off |-> offset]
    ELSE IF offset >= Len(data)
    THEN [st |-> "raise", count |-> Len(acc), fields |-> acc, off |-> offset]
    ELSE LET tag == data[offset + 1]
             r == decode_value(data, tag, offset + 1)
         IN IF r.st = "raise"
            THEN [st |-> "raise", count |-> Len(acc), fields |-> acc, off |-> offset]
            ELSE ReadVariantFields(data, n - 1, r.off,
                                   Append(acc, [value |-> r.v, type_id |-> tag]))

ReadVariant(data) ==
    LET c == decode_uint16(data, 4) IN
    IF c.st = "raise" THEN [st |-> "raise", count |-> 0, fields |-> <<>>, off |-> 4]
    ELSE LET r == ReadVariantFields(data, ToNat(c.v.d), c.off, <<>>)
         IN [r EXCEPT !.count = ToNat(c.v.d)]

---------------------------------------------------------------------------
(* UADPNetworkMessage *)

NetworkMessage(pid, writer_group_id) ==
    [publisher_id |-> pid,
     writer_group_id |-> writer_group_id,
     dataset_messages |-> <<>>,
     sequence_number |-> 0,
     include_group_header |-> TRUE,
     include_payload_header |-> TRUE]

\* encode, part 1: the flags byte and the PublisherId
EncHeader(m) ==
    LET flags == BitOr(BitOr(BitOr(BitAnd(VERSION, VERSION_MASK), PUBLISHER_ID_ENABLED),
                             IF m.include_group_header THEN GROUP_HEADER_ENABLED ELSE 0),
                       IF m.include_payload_header THEN PAYLOAD_HEADER_ENABLED ELSE 0)
        pid == m.publisher_id
    IN Cat2(<<flags>>,
            IF pid.k = "str" THEN Cat2(<<PUBLISHER_ID_STRING>>, encode_string(pid))
            ELSE IF IsInt(pid) THEN
                IF IntLe(AsInt(pid), Num(255))
                THEN Cat2(<<PUBLISHER_ID_BYTE>>,
                          IF AsInt(pid).neg THEN Raise ELSE Pad(AsInt(pid).d, 1))
                ELSE IF IntLe(AsInt(pid), Num(65535))
                THEN Cat2(<<PUBLISHER_ID_UINT16>>, Pack(pid, 2, FALSE))
                ELSE Cat2(<<PUBLISHER_ID_UINT32>>, Pack(pid, 4, FALSE))
            ELSE <<>>)

\* encode, part 2: the group header
EncGroupHeader(m) ==
    IF m.include_group_header
    THEN Cat2(Cat3(<<3>>, Pack(Num(m.writer_group_id), 2, FALSE), Pack(Num(0), 4, FALSE)),
              Pack(Num(BitAnd(m.sequence_number, SEQ_MASK)), 2, FALSE))
    ELSE <<>>

\* the loops over dataset_messages, written by halves to keep the
\* evaluation shallow for long lists
FirstHalf(dsms) == SubSeq(dsms, 1, Len(dsms) \div 2)
SecondHalf(dsms) == SubSeq(dsms, Len(dsms) \div 2 + 1, Len(dsms))

RECURSIVE WriterIdBytes(_)
WriterIdBytes(dsms) ==
    IF dsms = <<>> THEN <<>>
    ELSE IF Len(dsms) = 1 THEN Pack(Num(dsms[1].dataset_writer_id), 2, FALSE)
    ELSE Cat2(WriterIdBytes(FirstHalf(dsms)), WriterIdBytes(SecondHalf(dsms)))

\* encode, part 3: the payload header
EncPayloadHeader(m) ==
    IF m.include_payload_header
    THEN Cat2(ByteOf(Len(m.dataset_messages)), WriterIdBytes(m.dataset_messages))
    ELSE <<>>

RECURSIVE SizeBytes(_)
SizeBytes(dsms) ==
    IF dsms = <<>> THEN <<>>
    ELSE IF Len(dsms) = 1
    THEN LET e == ds_encode(dsms[1])
         IN IF e = Raise THEN Raise ELSE Pack(Num(Len(e)), 2, FALSE)
    ELSE Cat2(SizeBytes(FirstHalf(dsms)), SizeBytes(SecondHalf(dsms)))

RECURSIVE MessageBytes(_)
MessageBytes(dsms) ==
    IF dsms = <<>> THEN <<>>
    ELSE IF Len(dsms) = 1 THEN ds_encode(dsms[1])
    ELSE Cat2(MessageBytes(FirstHalf(dsms)), MessageBytes(SecondHalf(dsms)))

EncPayload_always_sizes(m) ==
    Cat2(SizeBytes(m.dataset_messages), MessageBytes(m.dataset_messages))

EncPayload_messages_first(m) ==
    IF Len(m.dataset_messages) > 1
    THEN Cat2(MessageBytes(m.dataset_messages), SizeBytes(m.dataset_messages))
    ELSE MessageBytes(m.dataset_messages)

\* encode, part 4: the DataSetMessages
EncPayload(m) ==
    IF Len(m.dataset_messages) > 1
    THEN Cat2(SizeBytes(m.dataset_messages), MessageBytes(m.dataset_messages))
    ELSE MessageBytes(m.dataset_messages)

\* UADPNetworkMessage.encode
net_encode(m) ==
    Cat2(Cat3(EncHeader(m), EncGroupHeader(m), EncPayloadHeader(m)), EncPayload(m))

net_encode_minimal_uncut(m) ==
    LET pid == m.publisher_id
        pub_bytes == Utf8Encode(PyStr(pid).d)
    IN Cat3(Cat2(<<BitOr(VERSION, PUBLISHER_ID_ENABLED)>>,
                 IF IsInt(pid) /\ IntLe(AsInt(pid), Num(255))
                 THEN Cat2(<<PUBLISHER_ID_BYTE>>,
                           IF AsInt(pid).neg THEN Raise ELSE Pad(AsInt(pid).d, 1))
                 ELSE Cat3(<<PUBLISHER_ID_STRING>>, Pack(Num(Len(pub_bytes)), 4, TRUE),
                           pub_bytes)),
            ByteOf(Len(m.dataset_messages)),
            MessageBytes(m.dataset_messages))

\* UADPNetworkMessage.encode_minimal
net_encode_minimal(m) ==
    LET pid == m.publisher_id
        pub_bytes == SubSeq(Utf8Encode(PyStr(pid).d), 1, Min(16, Len(Utf8Encode(PyStr(pid).d))))
    IN Cat3(Cat2(<<BitOr(VERSION, PUBLISHER_ID_ENABLED)>>,
                 IF IsInt(pid) /\ IntLe(AsInt(pid), Num(255))
                 THEN Cat2(<<PUBLISHER_ID_BYTE>>,
                           IF AsInt(pid).neg THEN Raise ELSE Pad(AsInt(pid).d, 1))
                 ELSE Cat3(<<PUBLISHER_ID_STRING>>, Pack(Num(Len(pub_bytes)), 4, TRUE),
                           pub_bytes)),
            ByteOf(Len(m.dataset_messages)),
            MessageBytes(m.dataset_messages))

\* What decode has parsed so far: the message under construction, the offset,
\* and one past the highest byte it has looked at.
NoMsg ==
    [publisher_id |-> NoneV, writer_group_id |-> 0, sequence_number |-> 0,
     raw_payload |-> <<>>, writer_ids |-> <<>>, ds_count |-> 0]

\* msg = UADPNetworkMessage("", 0); ds_count = 1; writer_ids = []
FreshMsg ==
    [publisher_id |-> Str(<<>>), writer_group_id |-> 0, sequence_number |-> 0,
     raw_payload |-> <<>>, writer_ids |-> <<>>, ds_count |-> 1]

Raised(s, why, rd) == [s EXCEPT !.st = "raise", !.why = why, !.rd = Max(s.rd, rd)]

\* decode: the PublisherId
DecPublisher(data, flags, s) ==
    IF BitAnd(flags, PUBLISHER_ID_ENABLED) = 0 THEN s
    ELSE IF s.off >= Len(data) THEN Raised(s, "IndexError", Len(data))
    ELSE LET pub_type == data[s.off + 1]
             o == s.off + 1
         IN CASE pub_type = PUBLISHER_ID_BYTE ->
                    IF o >= Len(data) THEN Raised(s, "IndexError", Len(data))
                    ELSE [s EXCEPT !.m.publisher_id = Num(data[o + 1]),
                                   !.off = o + 1, !.rd = o + 1]
              [] pub_type = PUBLISHER_ID_UINT16 ->
                    LET u == unpack_from(data, o, 2, FALSE) IN
                    IF u.st = "raise" THEN Raised(s, u.why, o)
                    ELSE [s EXCEPT !.m.publisher_id = u.v, !.off = o + 2, !.rd = o + 2]
              [] pub_type = PUBLISHER_ID_UINT32 ->
                    LET u == unpack_from(data, o, 4, FALSE) IN
                    IF u.st = "raise" THEN Raised(s, u.why, o)
                    ELSE [s EXCEPT !.m.publisher_id = u.v, !.off = o + 4, !.rd = o + 4]
              [] pub_type = PUBLISHER_ID_STRING ->
                    LET u == decode_string(data, o) IN
                    IF u.st = "raise" THEN Raised(s, u.why, Max(o, u.rd))
                    ELSE [s EXCEPT !.m.publisher_id = u.v, !.off = u.off,
                                   !.rd = Max(o, u.rd)]
              [] OTHER -> [s EXCEPT !.off = o, !.rd = o]

DecGroupWriter(data, group_flags, s) ==
    IF s.st # "ok" \/ BitAnd(group_flags, 1) = 0 THEN s
    ELSE LET u == unpack_from(data, s.off, 2, FALSE) IN
         IF u.st = "raise" THEN Raised(s, u.why, 0)
         ELSE [s EXCEPT !.m.writer_group_id = ToNat(u.v.d), !.off = s.off + 2,
                        !.rd = Max(s.rd, u.rd)]

DecGroupVersion(group_flags, s) ==
    IF s.st # "ok" \/ BitAnd(group_flags, 2) = 0 THEN s
    ELSE [s EXCEPT !.off = s.off + 4]

DecGroupNumber(data, group_flags, s) ==
    IF s.st # "ok" \/ BitAnd(group_flags, 4) = 0 THEN s
    ELSE LET u == unpack_from(data, s.off, 2, FALSE) IN
         IF u.st = "raise" THEN Raised(s, u.why, 0)
         ELSE [s EXCEPT !.m.sequence_number = ToNat(u.v.d), !.off = s.off + 2,
                        !.rd = Max(s.rd, u.rd)]

\* decode: the group header
DecGroup(data, flags, s) ==
    IF s.st # "ok" \/ BitAnd(flags, GROUP_HEADER_ENABLED) = 0 THEN s
    ELSE IF s.off >= Len(data) THEN Raised(s, "IndexError", Len(data))
    ELSE LET group_flags == data[s.off + 1]
             s1 == [s EXCEPT !.off = s.off + 1, !.rd = Max(s.rd, s.off + 1)]
         IN DecGroupNumber(data, group_flags,
                DecGroupVersion(group_flags, DecGroupWriter(data, group_flags, s1)))

RECURSIVE DecWriterIds(_, _, _)
DecWriterIds(data, n, s) ==
    IF n = 0 \/ s.st # "ok" THEN s
    ELSE LET u == unpack_from(data, s.off, 2, FALSE) IN
         IF u.st = "raise" THEN Raised(s, u.why, 0)
         ELSE DecWriterIds(data, n - 1,
                  [s EXCEPT !.m.writer_ids = Append(s.m.writer_ids, ToNat(u.v.d)),
                            !.off = s.off + 2, !.rd = Max(s.rd, u.rd)])

\* decode: the payload header
DecPayloadHeader(data, flags, s) ==
    IF s.st # "ok" \/ BitAnd(flags, PAYLOAD_HEADER_ENABLED) = 0 THEN s
    ELSE IF s.off >= Len(data) THEN Raised(s, "IndexError", Len(data))
    ELSE DecWriterIds(data, data[s.off + 1],
             [s EXCEPT !.m.ds_count = data[s.off + 1], !.off = s.off + 1,
                       !.rd = Max(s.rd, s.off + 1)])

version_of_low_bits(flags) == BitAnd(flags, 3)

\* version = flags & UADPFlags.VERSION_MASK
version_of(flags) == BitAnd(flags, VERSION_MASK)

\* UADPNetworkMessage.decode: st = "ok" with the message, "none" (returned None)
\* or "raise"
net_decode(data) ==
    IF Len(data) < 2
    THEN [st |-> "none", why |-> "too short", off |-> 0, rd |-> 0, m |-> NoMsg]
    ELSE LET flags == data[1] IN
         IF version_of(flags) # 1
         THEN [st |-> "none", why |-> "version", off |-> 1, rd |-> 1, m |-> NoMsg]
         ELSE LET s0 == [st |-> "ok", why |-> "", off |-> 1, rd |-> 1, m |-> FreshMsg]
                  s == DecPayloadHeader(data, flags,
                           DecGroup(data, flags, DecPublisher(data, flags, s0)))
              IN IF s.st # "ok" THEN [s EXCEPT !.m = NoMsg]
                 ELSE [s EXCEPT !.m.raw_payload = SubSeq(data, s.off + 1, Len(data)),
                                !.rd = Max(s.rd, Len(data))]

---------------------------------------------------------------------------
(* UADPPublisher *)

\* the data_dict of a publish call: entries in insertion order; type_id is
\* TypeNone for a plain value and the given type for a (value, type) tuple
Entry(name, value, type_id) == [name |-> name, value |-> value, type_id |-> type_id]

RECURSIVE AddFields(_)
AddFields(data_dict) ==
    IF data_dict = <<>> THEN <<>>
    ELSE <<add_field(Head(data_dict).name, Head(data_dict).value, Head(data_dict).type_id)>>
         \o AddFields(Tail(data_dict))

\* the NetworkMessage publish and publish_minimal build for message number n
BuildMessage(pid, n, dataset_writer_id, data_dict) ==
    [NetworkMessage(pid, 1) EXCEPT
        !.sequence_number = n,
        !.dataset_messages = <<DataSetMessage(dataset_writer_id, n, AddFields(data_dict))>>]

Call(name, called, raised) == [name |-> name, called |-> called, raised |-> raised]

Connect(tx_ok) ==
    /\ connected' = tx_ok
    /\ ret' = IF tx_ok THEN "True" ELSE "False"
    /\ op' = Call("connect", FALSE, ~tx_ok)
    /\ UNCHANGED <<publisher_id, message_count, bytes_sent, mqtt>>
    /\ UNCHANGED <<scalarVars, netVars, extVars>>

Disconnect(tx_ok) ==
    /\ connected' = IF tx_ok THEN FALSE ELSE connected
    /\ ret' = "None"
    /\ op' = Call("disconnect", FALSE, ~tx_ok)
    /\ UNCHANGED <<publisher_id, message_count, bytes_sent, mqtt>>
    /\ UNCHANGED <<scalarVars, netVars, extVars>>

PublishPayload_counts_first(name, payload, tx_ok) ==
    /\ message_count' = message_count + 1
    /\ UNCHANGED connected
    /\ IF ~connected \/ payload = Raise
       THEN /\ ret' = "False"
            /\ op' = Call(name, FALSE, FALSE)
            /\ UNCHANGED <<bytes_sent, mqtt>>
       ELSE IF tx_ok
       THEN /\ mqtt' = [mqtt EXCEPT !.calls = @ + 1, !.delivered = @ + 1,
                                    !.bytes = @ + Len(payload), !.last = payload]
            /\ bytes_sent' = bytes_sent + Len(payload)
            /\ ret' = "True"
            /\ op' = Call(name, TRUE, FALSE)
       ELSE /\ mqtt' = [mqtt EXCEPT !.calls = mqtt.calls + 1, !.last = payload]
            /\ ret' = "False"
            /\ op' = Call(name, TRUE, TRUE)
            /\ UNCHANGED bytes_sent

\* the part publish and publish_minimal share; payload is the encoded message.
\* mqtt.lost keeps the message numbers used by calls that sent nothing
PublishPayload(name, payload, tx_ok) ==
    IF ~connected
    THEN /\ ret' = "False"
         /\ op' = Call(name, FALSE, FALSE)
         /\ UNCHANGED <<connected, message_count, bytes_sent, mqtt>>
    ELSE /\ message_count' = message_count + 1
         /\ UNCHANGED connected
         /\ IF payload = Raise
            THEN /\ ret' = "False"
                 /\ op' = Call(name, FALSE, FALSE)
                 /\ mqtt' = [mqtt EXCEPT !.lost = @ \cup {message_count + 1}]
                 /\ UNCHANGED bytes_sent
            ELSE IF tx_ok
            THEN /\ mqtt' = [mqtt EXCEPT !.calls = @ + 1, !.delivered = @ + 1,
                                         !.bytes = @ + Len(payload), !.last = payload]
                 /\ bytes_sent' = bytes_sent + Len(payload)
                 /\ ret' = "True"
                 /\ op' = Call(name, TRUE, FALSE)
            ELSE /\ mqtt' = [mqtt EXCEPT !.calls = @ + 1, !.last = payload,
                                         !.lost = @ \cup {message_count + 1}]
                 /\ ret' = "False"
                 /\ op' = Call(name, TRUE, TRUE)
                 /\ UNCHANGED bytes_sent

Publish(dataset_writer_id, data_dict, tx_ok) ==
    /\ PublishPayload("publish",
           net_encode(BuildMessage(publisher_id, message_count + 1,
                                   dataset_writer_id, data_dict)),
           tx_ok)
    /\ UNCHANGED publisher_id
    /\ UNCHANGED <<scalarVars, netVars, extVars>>

PublishMinimal(dataset_writer_id, data_dict, tx_ok) ==
    /\ PublishPayload("publish_minimal",
           net_encode_minimal(BuildMessage(publisher_id, message_count + 1,
                                           dataset_writer_id, data_dict)),
           tx_ok)
    /\ UNCHANGED publisher_id
    /\ UNCHANGED <<scalarVars, netVars, extVars>>

\* UADPPublisher.get_stats (avg_msg_size, a quotient of the two, is left out)
get_stats == [messages_sent |-> message_count, bytes_sent |-> bytes_sent]

---------------------------------------------------------------------------
(* UADPSubscriber: connect and disconnect *)

\* connect: mqtt.connect() and mqtt.set_callback() inside try; on an exception
\* it returns False and touches nothing
SubConnect(tx_ok) ==
    /\ sub' = [sub EXCEPT !.connected = IF tx_ok THEN TRUE ELSE @]
    /\ feed' = [feed EXCEPT !.call = "connect", !.ret = IF tx_ok THEN "True" ELSE "False",
                            !.log = <<>>, !.escaped = FALSE]
    /\ UNCHANGED <<wire_min, snap, twin, cls, scalarVars, netVars, pubVars, dsVars, dvVars,
                   raceVars>>

\* disconnect: mqtt.disconnect() inside try, a bare except that passes
SubDisconnect(tx_ok) ==
    /\ sub' = [sub EXCEPT !.connected = IF tx_ok THEN FALSE ELSE @]
    /\ feed' = [feed EXCEPT !.call = "disconnect", !.ret = "None",
                            !.log = <<>>, !.escaped = FALSE]
    /\ UNCHANGED <<wire_min, snap, twin, cls, scalarVars, netVars, pubVars, dsVars, dvVars,
                   raceVars>>

\* on_raw, on_message, on_error: cb is None ("none") or a callable that
\* returns or one that raises
Register(name, cb) ==
    /\ sub' = [sub EXCEPT ![name] = cb]
    /\ feed' = [feed EXCEPT !.call = name, !.ret = "None", !.log = <<>>, !.escaped = FALSE]
    /\ UNCHANGED <<wire_min, snap, twin, cls, scalarVars, netVars, pubVars, dsVars, dvVars,
                   raceVars>>
on_raw(callback) == Register("on_raw", callback)
on_message(callback) == Register("on_message", callback)
on_error(callback) == Register("on_error", callback)

Invoked(cb, arg) == [cb |-> cb, arg |-> arg]

\* the try block of _mqtt_callback, d being what UADPNetworkMessage.decode
\* did: st is "done" or "escaped" (an exception left the handler), decoded and
\* errors the increments, log the callbacks invoked in order
TryDecode(s, payload, d) ==
    LET err == IF s.on_error = "none" THEN <<>> ELSE <<Invoked("error", payload)>>
        \* the except branch: errors += 1, then the error callback outside any try
        Except(dec, errs, log) ==
            [st |-> IF s.on_error = "raises" THEN "escaped" ELSE "done",
             decoded |-> dec, errors |-> errs + 1, log |-> log \o err]
    IN IF d.st = "ok"
       THEN IF s.on_message # "raises"
            THEN [st |-> "done", decoded |-> 1, errors |-> 0,
                  log |-> IF s.on_message = "none" THEN <<>>
                          ELSE <<Invoked("message", d.m)>>]
            ELSE Except(1, 0, <<Invoked("message", d.m)>>)
       ELSE IF d.st = "none"
       THEN IF s.on_error # "raises"
            THEN [st |-> "done", decoded |-> 0, errors |-> 1, log |-> err]
            ELSE Except(0, 1, err)
       ELSE Except(0, 0, <<>>)

\* _mqtt_callback with t what its try block did: the counters, the raw
\* callback (outside the try), then the try block
Dispatch(payload, t) ==
    LET raw == IF sub.on_raw = "none" THEN <<>> ELSE <<Invoked("raw", payload)>>
    IN /\ sub' = [sub EXCEPT
                     !.received = @ + 1,
                     !.bytes_received = @ + Len(payload),
                     !.decoded = IF sub.on_raw = "raises" THEN @ ELSE @ + t.decoded,
                     !.errors = IF sub.on_raw = "raises" THEN @ ELSE @ + t.errors]
       /\ feed' = [deliveries |-> feed.deliveries + 1, bytes |-> feed.bytes + Len(payload),
                   last |-> payload,
                   log |-> IF sub.on_raw = "raises" THEN raw ELSE raw \o t.log,
                   escaped |-> sub.on_raw = "raises" \/ t.st = "escaped",
                   call |-> "_mqtt_callback",
                   ret |-> IF sub.on_raw = "raises" \/ t.st = "escaped" THEN "raise"
                           ELSE "None"]
       /\ UNCHANGED <<wire_min, snap, twin, cls, scalarVars, netVars, pubVars, dsVars, dvVars,
                      raceVars>>

\* UADPSubscriber._mqtt_callback(topic, payload)
MqttCallback(payload) ==
    Dispatch(payload, TryDecode(sub, payload, net_decode(payload)))

---------------------------------------------------------------------------
(* The JSON DataValue of opcua_pubsub.py *)

\* what DataValue._get_timestamp returns at some instant
ClockIso == "2026-01-01T00:00:00Z"

\* DataValue.__init__; source_timestamp "" stands for None
DataValue(value, status_code, source_timestamp) ==
    [k |-> "DataValue", value |-> value, status_code |-> status_code,
     source_timestamp |-> IF source_timestamp = "" THEN ClockIso ELSE source_timestamp]

to_dict_elide_good_class(self) ==
    IF ~is_good(self.status_code)
    THEN [Value |-> self.value, SourceTimestamp |-> self.source_timestamp,
          StatusCode |-> self.status_code]
    ELSE [Value |-> self.value, SourceTimestamp |-> self.source_timestamp]

\* DataValue.to_dict
to_dict(self) ==
    IF NotEqual(self.status_code, GOOD)
    THEN [Value |-> self.value, SourceTimestamp |-> self.source_timestamp,
          StatusCode |-> self.status_code]
    ELSE [Value |-> self.value, SourceTimestamp |-> self.source_timestamp]

\* the payload entry DataSetMessage.add_value stores for a field
add_value(data_value) ==
    IF data_value.k = "DataValue" THEN to_dict(data_value)
    ELSE to_dict(DataValue(data_value, GOOD, ""))

---------------------------------------------------------------------------
(* The JSON facade of opcua_pubsub.py: OPCUAPublisher *)

\* DataSetMessage(writer, n) after add_value for each entry, as to_dict gives it
RECURSIVE JsonPayload(_)
JsonPayload(data_dict) ==
    IF data_dict = <<>> THEN <<>>
    ELSE <<[name |-> Head(data_dict).name, entry |-> add_value(Head(data_dict).value)]>>
         \o JsonPayload(Tail(data_dict))
JsonDataSetMessage(dataset_writer_id, sequence_number, data_dict) ==
    [DataSetWriterId |-> dataset_writer_id, SequenceNumber |-> sequence_number,
     Payload |-> JsonPayload(data_dict)]
\* NetworkMessage.to_dict
JsonNetworkMessage(pid, message_id, messages) ==
    [MessageId |-> message_id, MessageType |-> "ua-data", PublisherId |-> pid,
     Messages |-> messages]

\* OPCUAPublisher.publish; the transport gets the message to_json serializes,
\* kept here as the dictionary (one element in mqtt.last, its text length
\* not counted in mqtt.bytes)
PublishJson(dataset_writer_id, data_dict, tx_ok) ==
    /\ IF ~connected
       THEN /\ ret' = "False"
            /\ op' = Call("publish", FALSE, FALSE)
            /\ UNCHANGED <<connected, message_count, mqtt>>
       ELSE /\ message_count' = message_count + 1
            /\ UNCHANGED connected
            /\ LET payload ==
                      JsonNetworkMessage(publisher_id, PyStr(Num(message_count + 1)),
                          <<JsonDataSetMessage(dataset_writer_id, message_count + 1,
                                               data_dict)>>)
               IN IF tx_ok
                  THEN /\ mqtt' = [mqtt EXCEPT !.calls = @ + 1, !.delivered = @ + 1,
                                               !.last = <<payload>>]
                       /\ ret' = "True"
                       /\ op' = Call("publish", TRUE, FALSE)
                  ELSE /\ mqtt' = [mqtt EXCEPT !.calls = @ + 1, !.last = <<payload>>,
                                               !.lost = @ \cup {message_count + 1}]
                       /\ ret' = "False"
                       /\ op' = Call("publish", TRUE, TRUE)
    /\ UNCHANGED <<publisher_id, bytes_sent>>
    /\ UNCHANGED <<scalarVars, netVars, extVars>>

---------------------------------------------------------------------------
(* benchmarks/benchmark_leve.py: the interop-validated encoder *)

DATASET_CLASS_ID ==
    <<148, 151, 231, 234, 247, 26, 150, 79, 132, 1, 64, 150, 205, 29, 137, 8>>

encode_uadp_interop_no_class_id(pid, dataset_writer_id, fields) ==
    IF pid.k # "str" THEN Raise
    ELSE LET pub_bytes == Utf8Encode(pid.d) IN
         Cat3(Cat3(<<209, 12>>, Pack(Num(Len(pub_bytes)), 4, TRUE), pub_bytes),
              Cat3(<<1>>, Pack(Num(dataset_writer_id), 2, FALSE), <<1>>),
              Cat2(Pack(Num(Len(fields)), 2, FALSE), EncodeVariantFields(fields)))

\* encode_uadp_interop(publisher_id, dataset_writer_id, fields)
encode_uadp_interop(pid, dataset_writer_id, fields) ==
    IF pid.k # "str" THEN Raise
    ELSE LET pub_bytes == Utf8Encode(pid.d) IN
         Cat3(Cat3(<<209, 12>>, Pack(Num(Len(pub_bytes)), 4, TRUE), pub_bytes),
              Cat3(DATASET_CLASS_ID,
                   Cat3(<<1>>, Pack(Num(dataset_writer_id), 2, FALSE), <<1>>),
                   Pack(Num(Len(fields)), 2, FALSE)),
              EncodeVariantFields(fields))

---------------------------------------------------------------------------
(* Inputs *)

StrAlphabet == {65, 233, 8364}
ByteAlphabet == {0, 65, 255}
Texts == {Str(t) : t \in BoundedSeq(StrAlphabet, MaxStrLen)} \cup {Str(<<128512>>), NoneV}
Blobs == {Bytes(b) : b \in BoundedSeq(ByteAlphabet, MaxStrLen)} \cup {NoneV}

U64 == {Num(0), Num(1), Wide(FALSE, <<1, 2, 3, 4, 5, 6, 7, 8>>),
        Wide(FALSE, <<128, 0, 0, 0, 0, 0, 0, 0>>),
        Wide(FALSE, <<255, 255, 255, 255, 255, 255, 255, 255>>)}

\* (value, type) pairs with the value representable in the type
ScalarInputs ==
    ({Bool(TRUE), Bool(FALSE)} \X {T_BOOLEAN})
    \cup ({Num(0 - 128), Num(0 - 1), Num(0), Num(1), Num(127)} \X {T_SBYTE})
    \cup ({Num(0), Num(1), Num(128), Num(255)} \X {T_BYTE})
    \cup ({Num(0 - 32768), Num(0 - 258), Num(0 - 1), Num(0), Num(258), Num(32767)}
          \X {T_INT16})
    \cup ({Num(0), Num(258), Num(32768), Num(65535)} \X {T_UINT16})
    \cup ({Wide(TRUE, <<128, 0, 0, 0>>), Num(0 - 16909060), Num(0 - 1), Num(0),
           Num(16909060), Num(2147483647)} \X {T_INT32})
    \cup ({Num(0), Num(16909060), Wide(FALSE, <<128, 0, 0, 0>>),
           Wide(FALSE, <<255, 255, 255, 255>>)} \X {T_UINT32})
    \cup ({Wide(TRUE, <<128, 0, 0, 0, 0, 0, 0, 0>>),
           Wide(TRUE, <<1, 2, 3, 4, 5, 6, 7, 8>>), Num(0 - 1), Num(0),
           Wide(FALSE, <<1, 2, 3, 4, 5, 6, 7, 8>>),
           Wide(FALSE, <<127, 255, 255, 255, 255, 255, 255, 255>>)} \X {T_INT64})
    \cup (U64 \X {T_UINT64})
    \cup (U64 \X {T_DATETIME})
    \cup (Texts \X {T_STRING})
    \cup (Blobs \X {T_BYTESTRING})

ScalarTypes == {T_BOOLEAN, T_SBYTE, T_BYTE, T_INT16, T_UINT16, T_INT32, T_UINT32,
                T_INT64, T_UINT64, T_STRING, T_DATETIME, T_BYTESTRING}
\* type tags decode_value has no decoder for
UnknownTypes == {0, T_GUID, 16, 255, TypeNone}

\* buffers handed to the decoders as they arrive from the network
BufBytes == {0, 2, 65, 255}
Buffers == BoundedSeq(BufBytes, MaxBufLen)
Offsets == {0, 1}

PublisherIds ==
    {Str(t) : t \in BoundedSeq({65, 8364}, MaxPubIdLen)}
    \cup {Num(0), Num(7), Num(255), Num(256), Num(65535), Num(65536),
          Wide(FALSE, <<255, 255, 255, 255>>)}
\* what else a caller can hand to UADPNetworkMessage(publisher_id): nothing
\* checks the argument, and decode itself leaves None for a null String id
OtherPublisherIds ==
    {NoneV, Bytes(<<69, 83, 80>>), Obj("float", FALSE, <<65, 204, 0, 0>>), Bool(TRUE),
     Num(0 - 1), Wide(FALSE, <<1, 0, 0, 0, 0>>)}
WriterGroupIds == {1, 258}
SequenceNumbers == {0, 772, 65535, 65536}

DataSets ==
    {DataSetMessage(1, 0, <<>>),
     DataSetMessage(1000, 772, <<Field("a", Num(258), T_INT16)>>),
     DataSetMessage(65535, 65535, <<Field("s", Str(<<65>>), T_STRING),
                                    Field("b", Bool(TRUE), T_BOOLEAN)>>)}

NetInputs ==
    {[NetworkMessage(p, g) EXCEPT !.sequence_number = q, !.dataset_messages = d,
                                  !.include_group_header = gh,
                                  !.include_payload_header = ph] :
        p \in PublisherIds, g \in WriterGroupIds, q \in SequenceNumbers,
        d \in BoundedSeq(DataSets, MaxDataSets), gh \in BOOLEAN, ph \in BOOLEAN}

PublisherIdInputs ==
    {[NetworkMessage(p, g) EXCEPT !.sequence_number = 772, !.dataset_messages = d,
                                  !.include_group_header = gh,
                                  !.include_payload_header = ph] :
        p \in PublisherIds \cup OtherPublisherIds, g \in WriterGroupIds,
        d \in BoundedSeq(DataSets, 1), gh \in BOOLEAN, ph \in BOOLEAN}

\* messages handed to encode_minimal: short and long publisher names (16 and
\* 17 bytes, and one whose 16th byte falls inside a character), integer ids,
\* few DataSetMessages and as many as the count byte holds, and one more
LongNames ==
    {Str([i \in 1..16 |-> 65]), Str([i \in 1..17 |-> 65]),
     Str([i \in 1..16 |-> IF i = 16 THEN 8364 ELSE 65])}
ManyDataSets == {[i \in 1..n |-> DataSetMessage(1, 0, <<>>)] : n \in {255, 256}}
MinimalInputs ==
    {[NetworkMessage(p, 1) EXCEPT !.sequence_number = 772, !.dataset_messages = d,
                                  !.include_group_header = gh,
                                  !.include_payload_header = ph] :
        p \in PublisherIds \cup LongNames,
        d \in BoundedSeq(DataSets, MaxDataSets) \cup ManyDataSets,
        gh \in BOOLEAN, ph \in BOOLEAN}

\* messages on which the encoders are called again and again
PureInputs ==
    {[NetworkMessage(p, 258) EXCEPT !.sequence_number = 65536, !.dataset_messages = d,
                                    !.include_group_header = gh,
                                    !.include_payload_header = ph] :
        p \in {Str(<<69, 83, 80>>), Num(7), Num(65536)},
        d \in BoundedSeq(DataSets, MaxDataSets) \ {<<>>}, gh \in BOOLEAN, ph \in BOOLEAN}

FrameBytes == {0, 1, 2, 4, 17, 21, 33, 114}
Frames == BoundedSeq(FrameBytes, MaxFrameLen)

DataDicts ==
    {<<>>,
     <<Entry("t", Num(200), TypeNone)>>,
     <<Entry("s", Str(<<65>>), TypeNone), Entry("n", Num(7), T_UINT16)>>,
     <<Entry("x", Num(7), T_STRING)>>}
WriterIds == {1, 1000}
\* the data_dict of OPCUAPublisher.publish: plain values and DataValue objects
JsonDicts ==
    {<<>>, <<[name |-> "t", value |-> Num(200)]>>,
     <<[name |-> "s", value |-> DataValue(Str(<<65>>), BAD, "")],
       [name |-> "n", value |-> Bool(TRUE)]>>}
PublisherClasses == {"UADPPublisher", "OPCUAPublisher"}
\* payloads the transport delivers: too short, another version, ones decode
\* accepts, ones that end inside a header, and a published message
SubPayloads ==
    {<<>>, <<2, 0>>, <<1, 0>>, <<17, 0>>, <<17, 0, 7>>, <<33, 3>>,
     net_encode(BuildMessage(Str(<<69, 83, 80>>), 1, 1, <<Entry("t", Num(200), TypeNone)>>))}
Callbacks == {"none", "returns", "raises"}
PublisherInstances == {Str(<<69, 83, 80>>), Num(7)}

\* fields handed to add_field as (value, type_id): integer, boolean and text
\* values, typed by inference or explicitly
FieldChoices ==
    {<<Bool(TRUE), TypeNone>>, <<Num(42), TypeNone>>, <<Num(200), TypeNone>>,
     <<Wide(FALSE, <<1, 0, 0, 0, 0, 0>>), TypeNone>>, <<Num(7), T_UINT16>>,
     <<Str(<<65, 233>>), TypeNone>>}
MoreFieldChoices ==
    FieldChoices \cup {<<Bool(FALSE), TypeNone>>, <<Num(0 - 70000), TypeNone>>,
                       <<Num(0 - 128), TypeNone>>, <<Str(<<>>), TypeNone>>,
                       <<Num(255), T_BYTE>>, <<Num(65535), T_UINT32>>}
FieldList(choices) == [i \in 1..Len(choices) |-> add_field("f", choices[i][1], choices[i][2])]
DataSetInputs ==
    {DataSetMessage(1000, 772, FieldList(c)) : c \in [1..MaxFields -> FieldChoices]}
    \cup {DataSetMessage(1, q, FieldList(<<c>>)) :
             q \in SequenceNumbers, c \in MoreFieldChoices}
    \cup {DataSetMessage(1, q, <<>>) : q \in SequenceNumbers}

\* arguments of encode_uadp_interop: a publisher name, a writer id and a list
\* of (name, value, type_id) tuples
InteropPublishers ==
    {Str(t) : t \in BoundedSeq(StrAlphabet, MaxStrLen)} \cup {Str(<<69, 83, 80, 51, 50>>)}
InteropWriterIds == {0, 1000, 65535}
InteropFields ==
    {<<>>, <<Field("Val_F32_A", Obj("float", FALSE, <<65, 204, 0, 0>>), T_FLOAT)>>,
     <<Field("Val_F32_A", Obj("float", FALSE, <<65, 204, 0, 0>>), T_FLOAT),
       Field("Val_F32_B", Obj("float", FALSE, <<68, 125, 80, 0>>), T_FLOAT),
       Field("Val_I32_C", Num(42), T_INT32)>>}
    \cup {FieldList(<<c>>) : c \in MoreFieldChoices}
    \cup {FieldList(<<c, d>>) : c, d \in FieldChoices}

\* host values handed to from_python: integers at and around the limits of the
\* signed types, booleans, floats, text, bytes and None
InferInputs ==
    {Num(n) : n \in (0 - MaxSmallInt)..MaxSmallInt}
    \cup {Num(200), Num(0 - 32769), Num(0 - 32768), Num(32767), Num(32768),
          Wide(TRUE, <<128, 0, 0, 1>>), Wide(TRUE, <<128, 0, 0, 0>>),
          Wide(FALSE, <<127, 255, 255, 255>>), Wide(FALSE, <<128, 0, 0, 0>>),
          Wide(TRUE, <<128, 0, 0, 0, 0, 0, 0, 1>>), Wide(TRUE, <<128, 0, 0, 0, 0, 0, 0, 0>>),
          Wide(FALSE, <<127, 255, 255, 255, 255, 255, 255, 255>>),
          Wide(FALSE, <<128, 0, 0, 0, 0, 0, 0, 0>>),
          Wide(FALSE, <<1, 0, 0, 0, 0, 0, 0, 0, 0>>)}
    \cup {Bool(TRUE), Bool(FALSE), NoneV}
    \cup {Obj("float", FALSE, <<64, 9, 30, 184, 81, 235, 133, 31>>),
          Obj("float", FALSE, <<65, 204, 0, 0>>)}
    \cup Texts \cup Blobs

StatusCodes ==
    {GOOD, Num(1), Wide(FALSE, <<171, 0, 0>>), Wide(FALSE, <<63, 255, 255, 255>>),
     UNCERTAIN, BAD, BAD_SENSOR_FAILURE, Wide(FALSE, <<255, 255, 255, 255>>)}
\* values handed to DataSetMessage.add_value: DataValue objects and plain values
JsonInputs ==
    {DataValue(c[1], st, ts) :
        c \in MoreFieldChoices, st \in StatusCodes, ts \in {"", "2025-06-30T12:00:00Z"}}
    \cup {c[1] : c \in MoreFieldChoices}

\* two DataSetMessages to compare: the second has the fields of the first
\* under other names, or two of them in exchanged places
TwinChoices ==
    {<<Num(1), TypeNone>>, <<Num(257), TypeNone>>, <<Bool(FALSE), TypeNone>>,
     <<Num(42), TypeNone>>, <<Num(7), T_UINT16>>, <<Str(<<65>>), TypeNone>>}
FieldNames == <<"temperature", "pressure", "state", "id">>
OtherNames == <<"t", "p", "s", "temperature">>
NamedFields(choices, names) ==
    [i \in 1..Len(choices) |-> add_field(names[i], choices[i][1], choices[i][2])]
Exchange(fields, i, j) ==
    [n \in 1..Len(fields) |-> IF n = i THEN fields[j] ELSE IF n = j THEN fields[i] ELSE fields[n]]
TwinInputs ==
    {<<DataSetMessage(1000, 772, NamedFields(c, FieldNames)),
       DataSetMessage(1000, 772, NamedFields(c, OtherNames))>> :
        c \in BoundedSeq(TwinChoices, MaxTwinFields)}
    \cup UNION {{<<DataSetMessage(1000, 772, NamedFields(c, FieldNames)),
                   DataSetMessage(1000, 772, Exchange(NamedFields(c, FieldNames), i, j))>> :
                    i \in 1..Len(c), j \in 1..Len(c)} :
                c \in BoundedSeq(TwinChoices, MaxTwinFields)}

\* source timestamps: none (encode reads the clock) and explicit 64-bit ones
Timestamps ==
    {NoneV, Num(0), Num(5), Wide(FALSE, <<128, 0, 0, 0, 0, 0, 0, 0>>),
     Wide(FALSE, <<255, 255, 255, 255, 255, 255, 255, 255>>)}
\* UADPDataValue objects: integer, boolean and text values, typed by inference
\* or explicitly, with a status code and a source timestamp
DataValueInputs ==
    {UADPDataValue(c[1], c[2], st, ts) :
        c \in MoreFieldChoices, st \in StatusCodes, ts \in Timestamps}

---------------------------------------------------------------------------
(* The state machines *)

NoRes == Fail("", 0)
NoDec == [st |-> "", why |-> "", off |-> 0, rd |-> 0, m |-> NoMsg]

ScalarIdle ==
    /\ val = NoneV /\ typ = TypeNone /\ buf = <<>> /\ off = 0
    /\ res = NoRes /\ src = "idle"

NetIdle ==
    /\ msg = NetworkMessage(Str(<<>>), 0) /\ wire = <<>> /\ decoded = NoDec
    /\ stage = "idle"

\* UADPPublisher.__init__
PubNew ==
    /\ connected = FALSE /\ message_count = 0 /\ bytes_sent = 0
    /\ mqtt = [calls |-> 0, delivered |-> 0, bytes |-> 0, last |-> <<>>, lost |-> {}]
    /\ ret = "None" /\ op = Call("init", FALSE, FALSE)

NoRead == [st |-> "", count |-> 0, fields |-> <<>>, off |-> 0]

DataSetIdle ==
    /\ ds_msg = DataSetMessage(0, 0, <<>>) /\ ds_bytes = <<>> /\ ds_read = NoRead
    /\ ds_stage = "idle"

DataValueIdle ==
    /\ dv_in = NoneV /\ dv_opts = <<FALSE, FALSE>> /\ dv_out = <<>> /\ dv_back = NoneV
    /\ dv_stage = "idle"

Callers == {1, 2}
NoLocal == [count |-> 0, own |-> 0, net |-> 0, dsn |-> 0, overlap |-> FALSE]

RaceIdle ==
    /\ pc = [t \in Callers |-> "idle"] /\ local = [t \in Callers |-> NoLocal]
    /\ sent = <<>>

\* no encoder has been called yet
Unset == <<0 - 2>>
NoSnap ==
    [msg |-> NetworkMessage(Str(<<>>), 0), full |-> Unset, minimal |-> Unset,
     raw |-> <<>>, variant |-> <<>>, calls |-> 0, last |-> <<"", 0>>]
NoTwin == [msg |-> DataSetMessage(0, 0, <<>>), raw |-> <<>>, variant |-> <<>>]

\* UADPSubscriber.__init__; a callback is "none" (not registered), or one that
\* "returns" or "raises" when it is invoked
SubNew ==
    [connected |-> FALSE, received |-> 0, decoded |-> 0, errors |-> 0,
     bytes_received |-> 0, on_raw |-> "none", on_message |-> "none", on_error |-> "none"]
\* what the transport has delivered, the callbacks the last delivery invoked,
\* and the last call made on the subscriber
NoFeed ==
    [deliveries |-> 0, bytes |-> 0, last |-> <<>>, log |-> <<>>, escaped |-> FALSE,
     call |-> "init", ret |-> "None"]

MoreIdle ==
    /\ wire_min = <<>> /\ snap = NoSnap /\ twin = NoTwin
    /\ sub = SubNew /\ feed = NoFeed /\ cls = "UADPPublisher"

ExtIdle == DataSetIdle /\ DataValueIdle /\ RaceIdle /\ MoreIdle

Init ==
    /\ ScalarIdle /\ NetIdle /\ PubNew /\ ExtIdle
    /\ publisher_id \in PublisherInstances

\* a caller holds a value to encode, or a buffer has arrived to decode
InitScalar ==
    /\ NetIdle /\ PubNew /\ ExtIdle /\ publisher_id = Str(<<69, 83, 80>>)
    /\ res = NoRes
    /\ \/ /\ src = "value" /\ \E vt \in ScalarInputs : val = vt[1] /\ typ = vt[2]
          /\ buf = <<>> /\ off = 0
       \/ /\ src = "buffer" /\ val = NoneV
          /\ buf \in Buffers /\ typ \in ScalarTypes \cup UnknownTypes /\ off \in Offsets

\* UADPEncoder.encode_value(val, typ)
EncodeValue ==
    /\ src = "value"
    /\ buf' = encode_value(val, typ)
    /\ src' = "encoded"
    /\ UNCHANGED <<val, typ, off, res, netVars, pubVars, extVars>>

\* UADPDecoder.decode_value on the bytes encode_value returned
DecodeEncoded ==
    /\ src = "encoded" /\ buf # Raise
    /\ res' = decode_value(buf, typ, 0)
    /\ src' = "roundtrip"
    /\ UNCHANGED <<val, typ, buf, off, netVars, pubVars, extVars>>

\* UADPDecoder.decode_value(buf, typ, off) on a received buffer
DecodeValueAt ==
    /\ src = "buffer"
    /\ res' = decode_value(buf, typ, off)
    /\ src' = "received"
    /\ UNCHANGED <<val, typ, buf, off, netVars, pubVars, extVars>>

NextScalar == EncodeValue \/ DecodeEncoded \/ DecodeValueAt

SpecScalar == InitScalar /\ [][NextScalar]_vars

\* a caller has built a NetworkMessage, or a frame has arrived
InitNet ==
    /\ ScalarIdle /\ PubNew /\ ExtIdle /\ publisher_id = Str(<<69, 83, 80>>)
    /\ decoded = NoDec
    /\ \/ /\ stage = "message" /\ msg \in NetInputs /\ wire = <<>>
       \/ /\ stage = "frame" /\ msg = NetworkMessage(Str(<<>>), 0) /\ wire \in Frames

\* UADPNetworkMessage.encode on the message
EncodeMessage ==
    /\ stage = "message"
    /\ wire' = net_encode(msg)
    /\ stage' = "encoded"
    /\ UNCHANGED <<msg, decoded, scalarVars, pubVars, extVars>>

\* UADPNetworkMessage.decode on the bytes encode returned
DecodeWire ==
    /\ stage = "encoded" /\ wire # Raise
    /\ decoded' = net_decode(wire)
    /\ stage' = "roundtrip"
    /\ UNCHANGED <<msg, wire, scalarVars, pubVars, extVars>>

\* the transport delivers only the first k bytes of an encoded message
DecodeTruncated(k) ==
    /\ stage = "encoded" /\ wire # Raise /\ k < Len(wire)
    /\ wire' = SubSeq(wire, 1, k)
    /\ decoded' = net_decode(SubSeq(wire, 1, k))
    /\ stage' = "truncated"
    /\ UNCHANGED <<msg, scalarVars, pubVars, extVars>>

\* UADPNetworkMessage.decode on a received frame
DecodeFrame ==
    /\ stage = "frame"
    /\ decoded' = net_decode(wire)
    /\ stage' = "received"
    /\ UNCHANGED <<msg, wire, scalarVars, pubVars, extVars>>

\* a caller builds a UADPNetworkMessage around whatever publisher id it was given
InitPublisherId ==
    /\ ScalarIdle /\ PubNew /\ ExtIdle /\ publisher_id = Str(<<69, 83, 80>>)
    /\ decoded = NoDec
    /\ stage = "message" /\ msg \in PublisherIdInputs /\ wire = <<>>

NextPublisherId == EncodeMessage

SpecPublisherId == InitPublisherId /\ [][NextPublisherId]_vars

\* a caller has built a UADPNetworkMessage and may encode it in either mode
InitMinimal ==
    /\ ScalarIdle /\ PubNew /\ ExtIdle /\ publisher_id = Str(<<69, 83, 80>>)
    /\ decoded = NoDec
    /\ stage = "message" /\ msg \in MinimalInputs /\ wire = <<>>

\* UADPNetworkMessage.encode_minimal on the message
EncodeMinimal ==
    /\ stage \in {"message", "encoded"} /\ wire_min = <<>>
    /\ wire_min' = net_encode_minimal(msg)
    /\ UNCHANGED <<snap, twin, sub, feed, cls, netVars, scalarVars, pubVars, dsVars, dvVars, raceVars>>

NextMinimal == EncodeMessage \/ EncodeMinimal

SpecMinimal == InitMinimal /\ [][NextMinimal]_vars

\* a caller has built a UADPNetworkMessage; snap keeps a copy of it as built,
\* and the first bytes each encoder returned
InitPure ==
    /\ ScalarIdle /\ PubNew /\ DataSetIdle /\ DataValueIdle /\ RaceIdle
    /\ publisher_id = Str(<<69, 83, 80>>)
    /\ decoded = NoDec /\ stage = "message" /\ msg \in PureInputs /\ wire = <<>>
    /\ wire_min = <<>> /\ twin = NoTwin /\ sub = SubNew /\ feed = NoFeed /\ cls = "UADPPublisher"
    /\ snap = [NoSnap EXCEPT !.msg = msg,
                             !.raw = [i \in 1..Len(msg.dataset_messages) |-> Unset],
                             !.variant = [i \in 1..Len(msg.dataset_messages) |-> Unset]]

First(old, new) == IF old = Unset THEN new ELSE old

CallEncode_bumps ==
    /\ snap.calls < MaxCalls
    /\ wire' = net_encode(msg)
    /\ msg' = [msg EXCEPT !.sequence_number = @ + 1]
    /\ snap' = [snap EXCEPT !.full = First(@, wire'), !.calls = @ + 1,
                            !.last = <<"encode", 0>>]
    /\ UNCHANGED <<decoded, stage, wire_min, twin, sub, feed, cls, scalarVars, pubVars, dsVars,
                   dvVars, raceVars>>

\* msg.encode(): nothing in it assigns to the message
CallEncode ==
    /\ snap.calls < MaxCalls
    /\ wire' = net_encode(msg)
    /\ msg' = msg
    /\ snap' = [snap EXCEPT !.full = First(@, wire'), !.calls = @ + 1,
                            !.last = <<"encode", 0>>]
    /\ UNCHANGED <<decoded, stage, wire_min, twin, sub, feed, cls, scalarVars, pubVars, dsVars,
                   dvVars, raceVars>>

\* msg.encode_minimal()
CallEncodeMinimal ==
    /\ snap.calls < MaxCalls
    /\ wire_min' = net_encode_minimal(msg)
    /\ msg' = msg
    /\ snap' = [snap EXCEPT !.minimal = First(@, wire_min'), !.calls = @ + 1,
                            !.last = <<"encode_minimal", 0>>]
    /\ UNCHANGED <<wire, decoded, stage, twin, sub, feed, cls, scalarVars, pubVars, dsVars,
                   dvVars, raceVars>>

\* msg.dataset_messages[i].encode()
CallDataSetEncode(i) ==
    /\ snap.calls < MaxCalls /\ i \in 1..Len(msg.dataset_messages)
    /\ ds_bytes' = ds_encode(msg.dataset_messages[i])
    /\ msg' = msg
    /\ snap' = [snap EXCEPT !.raw[i] = First(@, ds_bytes'), !.calls = @ + 1,
                            !.last = <<"ds.encode", i>>]
    /\ UNCHANGED <<wire, decoded, stage, wire_min, twin, sub, feed, cls, scalarVars, pubVars,
                   ds_msg, ds_read, ds_stage, dvVars, raceVars>>

\* msg.dataset_messages[i].encode_with_types()
CallDataSetEncodeWithTypes(i) ==
    /\ snap.calls < MaxCalls /\ i \in 1..Len(msg.dataset_messages)
    /\ ds_bytes' = ds_encode_with_types(msg.dataset_messages[i])
    /\ msg' = msg
    /\ snap' = [snap EXCEPT !.variant[i] = First(@, ds_bytes'), !.calls = @ + 1,
                            !.last = <<"ds.encode_with_types", i>>]
    /\ UNCHANGED <<wire, decoded, stage, wire_min, twin, sub, feed, cls, scalarVars, pubVars,
                   ds_msg, ds_read, ds_stage, dvVars, raceVars>>

NextPure ==
    \/ CallEncode
    \/ CallEncodeMinimal
    \/ \E i \in 1..MaxDataSets : CallDataSetEncode(i)
    \/ \E i \in 1..MaxDataSets : CallDataSetEncodeWithTypes(i)

SpecPure == InitPure /\ [][NextPure]_vars

NextNet ==
    \/ EncodeMessage
    \/ DecodeWire
    \/ \E k \in 0..MaxPrefix : DecodeTruncated(k)
    \/ DecodeFrame

SpecNet == InitNet /\ [][NextNet]_vars

Next ==
    \/ \E ok \in BOOLEAN : Connect(ok)
    \/ \E ok \in BOOLEAN : Disconnect(ok)
    \/ \E w \in WriterIds, d \in DataDicts, ok \in BOOLEAN :
            message_count < MaxPublishes /\ Publish(w, d, ok)
    \/ \E w \in WriterIds, d \in DataDicts, ok \in BOOLEAN :
            message_count < MaxPublishes /\ PublishMinimal(w, d, ok)

Spec == Init /\ [][Next]_vars

\* one facade object of one of the three classes, as constructed
InitFacade ==
    /\ ScalarIdle /\ NetIdle /\ PubNew /\ DataSetIdle /\ DataValueIdle /\ RaceIdle
    /\ wire_min = <<>> /\ snap = NoSnap /\ twin = NoTwin /\ sub = SubNew /\ feed = NoFeed
    /\ publisher_id = Str(<<69, 83, 80>>)
    /\ cls \in PublisherClasses \cup {"UADPSubscriber"}

NextFacade ==
    \/ \E ok \in BOOLEAN : cls \in PublisherClasses /\ Connect(ok)
    \/ \E ok \in BOOLEAN : cls \in PublisherClasses /\ Disconnect(ok)
    \/ \E w \in WriterIds, d \in DataDicts, ok \in BOOLEAN :
            cls = "UADPPublisher" /\ message_count < MaxPublishes /\ Publish(w, d, ok)
    \/ \E w \in WriterIds, d \in DataDicts, ok \in BOOLEAN :
            cls = "UADPPublisher" /\ message_count < MaxPublishes /\ PublishMinimal(w, d, ok)
    \/ \E w \in WriterIds, d \in JsonDicts, ok \in BOOLEAN :
            cls = "OPCUAPublisher" /\ message_count < MaxPublishes /\ PublishJson(w, d, ok)
    \/ \E ok \in BOOLEAN : cls = "UADPSubscriber" /\ SubConnect(ok)
    \/ \E ok \in BOOLEAN : cls = "UADPSubscriber" /\ SubDisconnect(ok)

SpecFacade == InitFacade /\ [][NextFacade]_vars

\* a subscriber as constructed; the transport calls _mqtt_callback
InitSub ==
    /\ ScalarIdle /\ NetIdle /\ PubNew /\ DataSetIdle /\ DataValueIdle /\ RaceIdle
    /\ wire_min = <<>> /\ snap = NoSnap /\ twin = NoTwin /\ sub = SubNew /\ feed = NoFeed
    /\ publisher_id = Str(<<69, 83, 80>>)
    /\ cls = "UADPSubscriber"

NextSub ==
    \/ \E cb \in Callbacks : on_raw(cb)
    \/ \E cb \in Callbacks : on_message(cb)
    \/ \E cb \in Callbacks : on_error(cb)
    \/ \E payload \in SubPayloads :
            feed.deliveries < MaxDeliveries /\ MqttCallback(payload)

SpecSub == InitSub /\ [][NextSub]_vars

WrapDict == <<Entry("t", Num(200), TypeNone)>>

NextWrap ==
    \/ Connect(TRUE)
    \/ message_count < MaxWrapCount /\ Publish(1000, WrapDict, TRUE)

SpecWrap == Init /\ [][NextWrap]_vars

\* one publisher whose publish calls come one after the other, for more than
\* 65536 messages; the transport may raise on the first MaxLostAt of them
InitWindow ==
    /\ ScalarIdle /\ NetIdle /\ PubNew /\ ExtIdle
    /\ publisher_id = Str(<<69, 83, 80>>)

NextWindow ==
    \/ ~connected /\ Connect(TRUE)
    \/ message_count < MaxWrapCount /\ Publish(1000, WrapDict, TRUE)
    \/ message_count < MaxLostAt /\ Publish(1000, WrapDict, FALSE)

SpecWindow == InitWindow /\ [][NextWindow]_vars

\* a caller has built a DataSetMessage with add_field
InitDataSet ==
    /\ ScalarIdle /\ NetIdle /\ PubNew /\ DataValueIdle /\ RaceIdle /\ MoreIdle
    /\ publisher_id = Str(<<69, 83, 80>>)
    /\ ds_msg \in DataSetInputs /\ ds_bytes = <<>> /\ ds_read = NoRead
    /\ ds_stage = "message"

\* UADPDataSetMessage.encode on the message
EncodeDataSet ==
    /\ ds_stage = "message"
    /\ ds_bytes' = ds_encode(ds_msg)
    /\ ds_stage' = "raw"
    /\ UNCHANGED <<ds_msg, ds_read, scalarVars, netVars, pubVars, dvVars, raceVars, moreVars>>

\* UADPDataSetMessage.encode_with_types on the message
EncodeWithTypes ==
    /\ ds_stage = "message"
    /\ ds_bytes' = ds_encode_with_types(ds_msg)
    /\ ds_stage' = "variant"
    /\ UNCHANGED <<ds_msg, ds_read, scalarVars, netVars, pubVars, dvVars, raceVars, moreVars>>

\* a receiver walks the Variant bytes with UADPDecoder.decode_value
ReadVariantBytes ==
    /\ ds_stage = "variant" /\ ds_bytes # Raise
    /\ ds_read' = ReadVariant(ds_bytes)
    /\ ds_stage' = "read"
    /\ UNCHANGED <<ds_msg, ds_bytes, scalarVars, netVars, pubVars, dvVars, raceVars, moreVars>>

NextDataSet == EncodeDataSet \/ EncodeWithTypes \/ ReadVariantBytes

SpecDataSet == InitDataSet /\ [][NextDataSet]_vars

\* a caller holds the arguments of encode_uadp_interop
InitInterop ==
    /\ ScalarIdle /\ NetIdle /\ PubNew /\ DataValueIdle /\ RaceIdle /\ MoreIdle
    /\ publisher_id \in InteropPublishers
    /\ \E w \in InteropWriterIds, f \in InteropFields : ds_msg = DataSetMessage(w, 0, f)
    /\ ds_bytes = <<>> /\ ds_read = NoRead /\ ds_stage = "args"

\* encode_uadp_interop(publisher_id, dataset_writer_id, fields)
EncodeInterop ==
    /\ ds_stage = "args"
    /\ ds_bytes' = encode_uadp_interop(publisher_id, ds_msg.dataset_writer_id, ds_msg.fields)
    /\ ds_stage' = "interop"
    /\ UNCHANGED <<ds_msg, ds_read, scalarVars, netVars, pubVars, dvVars, raceVars, moreVars>>

NextInterop == EncodeInterop

SpecInterop == InitInterop /\ [][NextInterop]_vars

\* a caller has built two DataSetMessages
InitTwin ==
    /\ ScalarIdle /\ NetIdle /\ PubNew /\ DataValueIdle /\ RaceIdle
    /\ publisher_id = Str(<<69, 83, 80>>)
    /\ wire_min = <<>> /\ snap = NoSnap /\ sub = SubNew /\ feed = NoFeed /\ cls = "UADPPublisher"
    /\ \E pair \in TwinInputs :
          /\ ds_msg = pair[1]
          /\ twin = [msg |-> pair[2], raw |-> <<>>, variant |-> <<>>]
    /\ ds_bytes = <<>> /\ ds_read = NoRead /\ ds_stage = "message"

\* UADPDataSetMessage.encode on the second message
EncodeTwin ==
    /\ twin.raw = <<>>
    /\ twin' = [twin EXCEPT !.raw = ds_encode(twin.msg)]
    /\ UNCHANGED <<wire_min, snap, sub, feed, cls, scalarVars, netVars, pubVars, dsVars, dvVars,
                   raceVars>>

\* UADPDataSetMessage.encode_with_types on the second message
EncodeTwinWithTypes ==
    /\ twin.variant = <<>>
    /\ twin' = [twin EXCEPT !.variant = ds_encode_with_types(twin.msg)]
    /\ UNCHANGED <<wire_min, snap, sub, feed, cls, scalarVars, netVars, pubVars, dsVars, dvVars,
                   raceVars>>

NextTwin == EncodeDataSet \/ EncodeWithTypes \/ EncodeTwin \/ EncodeTwinWithTypes

SpecTwin == InitTwin /\ [][NextTwin]_vars

\* a caller holds a host value whose wire type is to be inferred
InitInfer ==
    /\ NetIdle /\ PubNew /\ ExtIdle /\ publisher_id = Str(<<69, 83, 80>>)
    /\ val \in InferInputs /\ typ = TypeNone /\ buf = <<>> /\ off = 0
    /\ res = NoRes /\ src = "value"

\* OPCUATypes.from_python(val)
InferType ==
    /\ src = "value" /\ typ = TypeNone
    /\ typ' = from_python(val)
    /\ src' = "inferred"
    /\ UNCHANGED <<val, buf, off, res, netVars, pubVars, extVars>>

NextInfer == InferType

SpecInfer == InitInfer /\ [][NextInfer]_vars

\* a caller holds a value for a field of the JSON payload
InitJson ==
    /\ ScalarIdle /\ NetIdle /\ PubNew /\ DataSetIdle /\ RaceIdle /\ MoreIdle
    /\ publisher_id = Str(<<69, 83, 80>>)
    /\ dv_in \in JsonInputs /\ dv_opts = <<FALSE, FALSE>> /\ dv_out = <<>>
    /\ dv_back = NoneV /\ dv_stage = "field"

\* DataSetMessage.add_value: the field's DataValue.to_dict()
AddValue ==
    /\ dv_stage = "field"
    /\ dv_out' = add_value(dv_in)
    /\ dv_stage' = "json"
    /\ UNCHANGED <<dv_in, dv_opts, dv_back, scalarVars, netVars, pubVars, dsVars, raceVars, moreVars>>

NextJson == AddValue

SpecJson == InitJson /\ [][NextJson]_vars

\* a caller holds a UADPDataValue and chooses what encode is to include
InitDataValue ==
    /\ ScalarIdle /\ NetIdle /\ PubNew /\ DataSetIdle /\ RaceIdle /\ MoreIdle
    /\ publisher_id = Str(<<69, 83, 80>>)
    /\ dv_in \in DataValueInputs /\ dv_opts \in BOOLEAN \X BOOLEAN /\ dv_out = <<>>
    /\ dv_back = NoDataValue /\ dv_stage = "value"

\* UADPDataValue.encode(include_status, include_timestamp)
EncodeDataValue ==
    /\ dv_stage = "value"
    /\ dv_out' = dv_encode(dv_in, dv_opts[1], dv_opts[2])
    /\ dv_stage' = "encoded"
    /\ UNCHANGED <<dv_in, dv_opts, dv_back, scalarVars, netVars, pubVars, dsVars, raceVars, moreVars>>

\* UADPDataValue.decode on the bytes encode returned, with the value's type
DecodeDataValue ==
    /\ dv_stage = "encoded" /\ dv_out # Raise
    /\ dv_back' = dv_decode(dv_out, dv_in.type_id, 0)
    /\ dv_stage' = "roundtrip"
    /\ UNCHANGED <<dv_in, dv_opts, dv_out, scalarVars, netVars, pubVars, dsVars, raceVars, moreVars>>

NextDataValue == EncodeDataValue \/ DecodeDataValue

SpecDataValue == InitDataValue /\ [][NextDataValue]_vars

\* UADPPublisher.publish called by several callers on one instance, statement by
\* statement. local[t] holds what call t has read so far; overlap records
\* whether another call ran between the call's first read of message_count and
\* its last.
InCounterSection(t) == pc[t] \in {"store", "net", "ds"}

\* line 850: the connected check
PublishEnter(t) ==
    /\ pc[t] = "idle" /\ Len(sent) < MaxRaceSent
    /\ IF connected
       THEN /\ pc' = [pc EXCEPT ![t] = "load"]
            /\ UNCHANGED <<ret, op>>
       ELSE /\ ret' = "False" /\ op' = Call("publish", FALSE, FALSE)
            /\ UNCHANGED pc
    /\ local' = [local EXCEPT ![t] = NoLocal]
    /\ UNCHANGED <<publisher_id, connected, message_count, bytes_sent, mqtt, sent>>
    /\ UNCHANGED <<scalarVars, netVars, dsVars, dvVars, moreVars>>

\* line 855, first half: read self.message_count
PublishLoadCount(t) ==
    /\ pc[t] = "load"
    /\ pc' = [pc EXCEPT ![t] = "store"]
    /\ local' = [u \in Callers |->
                   IF u = t
                   THEN [local[t] EXCEPT !.count = message_count,
                                         !.overlap = \E v \in Callers \ {t} :
                                                        InCounterSection(v)]
                   ELSE IF InCounterSection(u) THEN [local[u] EXCEPT !.overlap = TRUE]
                   ELSE local[u]]
    /\ UNCHANGED <<pubVars, sent, scalarVars, netVars, dsVars, dvVars, moreVars>>

PublishStoreCount_same(t) ==
    /\ pc[t] = "store"
    /\ message_count' = local[t].count
    /\ pc' = [pc EXCEPT ![t] = "net"]
    /\ local' = [local EXCEPT ![t].own = local[t].count]
    /\ UNCHANGED <<publisher_id, connected, bytes_sent, mqtt, ret, op, sent>>
    /\ UNCHANGED <<scalarVars, netVars, dsVars, dvVars, moreVars>>

\* line 855, second half: write self.message_count
PublishStoreCount(t) ==
    /\ pc[t] = "store"
    /\ message_count' = local[t].count + 1
    /\ pc' = [pc EXCEPT ![t] = "net"]
    /\ local' = [local EXCEPT ![t].own = local[t].count + 1]
    /\ UNCHANGED <<publisher_id, connected, bytes_sent, mqtt, ret, op, sent>>
    /\ UNCHANGED <<scalarVars, netVars, dsVars, dvVars, moreVars>>

\* line 862: net_msg.sequence_number = self.message_count
PublishReadNet(t) ==
    /\ pc[t] = "net"
    /\ pc' = [pc EXCEPT ![t] = "ds"]
    /\ local' = [local EXCEPT ![t].net = message_count]
    /\ UNCHANGED <<pubVars, sent, scalarVars, netVars, dsVars, dvVars, moreVars>>

\* line 867: UADPDataSetMessage(sequence_number=self.message_count)
PublishReadDs(t) ==
    /\ pc[t] = "ds"
    /\ pc' = [pc EXCEPT ![t] = "send"]
    /\ local' = [local EXCEPT ![t].dsn = message_count]
    /\ UNCHANGED <<pubVars, sent, scalarVars, netVars, dsVars, dvVars, moreVars>>

\* lines 871-895: add the fields, encode, hand the payload to the transport
PublishSend(t, dataset_writer_id, data_dict) ==
    /\ pc[t] = "send"
    /\ LET m == [NetworkMessage(publisher_id, 1) EXCEPT
                    !.sequence_number = local[t].net,
                    !.dataset_messages =
                        <<DataSetMessage(dataset_writer_id, local[t].dsn,
                                         AddFields(data_dict))>>]
           payload == net_encode(m)
       IN /\ mqtt' = [mqtt EXCEPT !.calls = @ + 1, !.delivered = @ + 1,
                                  !.bytes = @ + Len(payload), !.last = payload]
          /\ bytes_sent' = bytes_sent + Len(payload)
          /\ sent' = Append(sent, [caller |-> t, own |-> local[t].own,
                                   overlap |-> local[t].overlap, payload |-> payload])
    /\ ret' = "True" /\ op' = Call("publish", TRUE, FALSE)
    /\ pc' = [pc EXCEPT ![t] = "idle"]
    /\ UNCHANGED <<publisher_id, connected, message_count, local>>
    /\ UNCHANGED <<scalarVars, netVars, dsVars, dvVars, moreVars>>

NextRace ==
    \/ Connect(TRUE)
    \/ \E t \in Callers : PublishEnter(t)
    \/ \E t \in Callers : PublishLoadCount(t)
    \/ \E t \in Callers : PublishStoreCount(t)
    \/ \E t \in Callers : PublishReadNet(t)
    \/ \E t \in Callers : PublishReadDs(t)
    \/ \E t \in Callers : PublishSend(t, 1000, WrapDict)

SpecRace == Init /\ [][NextRace]_vars

---------------------------------------------------------------------------
(* Properties *)

\* the unsigned 16-bit little-endian number at 0-based position pos of b
LE16At(b, pos) == b[pos + 1] + 256 * b[pos + 2]

\* number of bytes encode() writes before the payload body
PublisherIdLen(pid) ==
    IF pid.k = "str" THEN 1 + 4 + Len(Utf8Encode(pid.d))
    ELSE IF IntLe(pid, Num(255)) THEN 2
    ELSE IF IntLe(pid, Num(65535)) THEN 3
    ELSE 5
GroupHeaderAt(m) == 1 + PublisherIdLen(m.publisher_id)
PayloadHeaderAt(m) == GroupHeaderAt(m) + (IF m.include_group_header THEN 9 ELSE 0)
PayloadAt(m) ==
    PayloadHeaderAt(m)
    + (IF m.include_payload_header THEN 1 + 2 * Len(m.dataset_messages) ELSE 0)
PayloadBody == SubSeq(wire, PayloadAt(msg) + 1, Len(wire))

RECURSIVE SumLen(_, _)
SumLen(dsms, n) == IF n = 0 THEN 0 ELSE SumLen(dsms, n - 1) + Len(ds_encode(dsms[n]))

\* C1: decode(m.encode()) gives back publisher_id, writer_group_id,
\* sequence_number, the writer-id list and the DataSet count of m, and its raw
\* payload is the payload body encode() wrote, for every message with the
\* default framing and a 16-bit sequence number.
C1_HeaderRoundTrip ==
    (stage = "roundtrip" /\ msg.include_group_header /\ msg.include_payload_header
        /\ msg.sequence_number <= 65535)
    => /\ decoded.st = "ok"
       /\ decoded.m.publisher_id = msg.publisher_id
       /\ decoded.m.writer_group_id = msg.writer_group_id
       /\ decoded.m.sequence_number = msg.sequence_number
       /\ decoded.m.writer_ids
            = [i \in 1..Len(msg.dataset_messages) |->
                    msg.dataset_messages[i].dataset_writer_id]
       /\ decoded.m.ds_count = Len(msg.dataset_messages)
       /\ decoded.m.raw_payload = PayloadBody

C3_SingleMessageNoPrefix ==
    (stage = "encoded" /\ Len(msg.dataset_messages) = 1)
    => PayloadBody = ds_encode(msg.dataset_messages[1])

C3_Witness ==
    /\ stage = "encoded" /\ Len(msg.dataset_messages) = 1
    /\ msg.dataset_messages[1].fields # <<>>
    /\ msg.include_payload_header
    /\ PayloadBody = ds_encode(msg.dataset_messages[1])

\* C4: whenever encode() emits the group header, its flags byte has bits 0, 1
\* and 2 set, followed by writerGroupId (16 bit), groupVersion 0 (32 bit) and
\* the sequence number (16 bit).
C4_GroupHeaderLayout ==
    (stage = "encoded" /\ msg.include_group_header)
    => LET g == GroupHeaderAt(msg) IN
       /\ BitAnd(wire[g + 1], 7) = 7
       /\ LE16At(wire, g + 1) = msg.writer_group_id
       /\ SubSeq(wire, g + 4, g + 7) = <<0, 0, 0, 0>>
       /\ LE16At(wire, g + 7) = msg.sequence_number % 65536

\* C5: a frame whose first byte has low 4 bits other than 1 is rejected: no
\* message comes back, and nothing after the flags byte is looked at.
C5_VersionRejected ==
    (stage \in {"received", "truncated", "roundtrip"} /\ Len(wire) >= 1
        /\ wire[1] % 16 # 1)
    => /\ decoded.st = "none"
       /\ decoded.m = NoMsg
       /\ decoded.rd <= 1

C5_Witness ==
    /\ stage = "received" /\ Len(wire) = 4 /\ wire[1] = 114
    /\ decoded.st = "none" /\ decoded.rd = 1

\* bytes decode_value needs from offset o on for type t: the fixed width, or
\* 4 plus the declared length of a String/ByteString
Width(t) ==
    CASE t \in {T_BOOLEAN, T_SBYTE, T_BYTE} -> 1
      [] t \in {T_INT16, T_UINT16} -> 2
      [] t \in {T_INT32, T_UINT32} -> 4
      [] t \in {T_INT64, T_UINT64, T_DATETIME} -> 8
      [] OTHER -> 4
Declared(b, o) ==
    IF b[o + 4] >= 128 THEN 0
    ELSE b[o + 1] + 256 * b[o + 2] + 65536 * b[o + 3] + 16777216 * b[o + 4]
Needed(b, t, o) ==
    IF t \in {T_STRING, T_BYTESTRING} /\ Len(b) >= o + 4
    THEN 4 + Declared(b, o)
    ELSE Width(t)

\* C6: a decoder given a buffer shorter than what it has to read fails, and a
\* decoder that returns never returns an offset past the end of the buffer.
C6_TruncatedFails ==
    src = "received"
    => /\ (off + Needed(buf, typ, off) > Len(buf)) => res.st = "raise"
       /\ res.st = "ok" => res.off <= Len(buf)

\* C7: when the transport's publish raises, publish / publish_minimal return
\* False and leave the facade disconnected.
C7_FailureDisconnects ==
    (op.name \in {"publish", "publish_minimal"} /\ op.raised)
    => (ret = "False" /\ connected = FALSE)

\* C8: the sequence numbers on the wire (group header NetworkMessageNumber and
\* DataSetMessage SequenceNumber) are message_count mod 65536, while
\* message_count itself counts every publish and does not wrap.
C8_SequenceWraps ==
    /\ message_count = mqtt.calls
    /\ (op.name = "publish" /\ op.called)
       => LET m == BuildMessage(publisher_id, message_count, 1000, WrapDict) IN
          /\ LE16At(mqtt.last, GroupHeaderAt(m) + 7) = message_count % 65536
          /\ LE16At(mqtt.last, PayloadAt(m) + 2) = message_count % 65536

C8_Witness ==
    /\ message_count = 65536 /\ op.name = "publish" /\ op.called /\ ret = "True"
    /\ publisher_id = Str(<<69, 83, 80>>)
    /\ LE16At(mqtt.last, 16) = 0
    /\ LE16At(mqtt.last, 23) = 0

\* encoded size of a String/ByteString value: 4, plus its byte length
Utf8Len(c) == IF c < 128 THEN 1 ELSE IF c < 2048 THEN 2 ELSE IF c < 65536 THEN 3 ELSE 4
RECURSIVE TextLen(_)
TextLen(t) == IF t = <<>> THEN 0 ELSE Utf8Len(Head(t)) + TextLen(Tail(t))
SizeOf(v, t) ==
    IF t = T_STRING THEN 4 + TextLen(v.d)
    ELSE IF t = T_BYTESTRING THEN 4 + Len(v.d)
    ELSE Width(t)

\* C9: decode_value(encode_value(v, T), T, 0) = (v, n) with n the width of T
\* (4 + byte length for String/ByteString), integers little-endian.
C9_ScalarRoundTrip ==
    src = "roundtrip"
    => /\ res.st = "ok"
       /\ res.v = val
       /\ res.off = SizeOf(val, typ)
       /\ Len(buf) = SizeOf(val, typ)
       /\ (val.k = "int" /\ ~val.neg) => Strip(Reverse(buf)) = val.d
       /\ (val.k = "int" /\ val.neg) => Strip(Reverse(buf)) = Strip(Inc(Inv(Pad(val.d, Len(buf)))))

C9_Witness ==
    /\ src = "roundtrip" /\ typ = T_INT64
    /\ val = Wide(TRUE, <<1, 2, 3, 4, 5, 6, 7, 8>>)
    /\ buf = <<248, 248, 249, 250, 251, 252, 253, 254>>
    /\ res.v = val /\ res.off = 8

\* C10: a null String/ByteString encodes as the four bytes of -1; decoding a
\* negative length gives None, the offset advanced by 4, no payload byte read.
C10_NullStrings ==
    /\ (src \in {"encoded", "roundtrip"} /\ val = NoneV)
       => buf = <<255, 255, 255, 255>>
    /\ (src = "received" /\ typ \in {T_STRING, T_BYTESTRING} /\ Len(buf) >= off + 4
            /\ buf[off + 4] >= 128)
       => /\ res.st = "ok" /\ res.v = NoneV
          /\ res.off = off + 4
          /\ res.rd <= off + 4

C10_Witness ==
    /\ src = "received" /\ typ = T_STRING /\ off = 0
    /\ buf = <<0, 0, 0, 255, 65>>
    /\ res.st = "ok" /\ res.v = NoneV /\ res.off = 4

\* C11: reading encode_with_types() as 4 header bytes, a 16-bit field count and
\* per field a type tag and decode_value with that tag gives back the (value,
\* type) list in order, a field count equal to the number of fields, and a
\* final offset equal to the encoded length.
C11_VariantRoundTrip ==
    ds_stage = "read"
    => /\ ds_read.st = "ok"
       /\ ds_read.count = Len(ds_msg.fields)
       /\ ds_read.fields
            = [i \in 1..Len(ds_msg.fields) |->
                 [value |-> ds_msg.fields[i].value, type_id |-> ds_msg.fields[i].type_id]]
       /\ ds_read.off = Len(ds_bytes)

C11_Witness ==
    /\ ds_stage = "read" /\ Len(ds_msg.fields) = MaxFields
    /\ \E i, j, k \in 1..MaxFields :
          /\ ds_msg.fields[i].type_id = T_BOOLEAN
          /\ ds_msg.fields[j].type_id = T_INT64
          /\ ds_msg.fields[k].type_id = T_STRING
    /\ ds_read.st = "ok" /\ Len(ds_read.fields) = MaxFields
    /\ ds_read.off = Len(ds_bytes)

\* C12: encode_uadp_interop emits 0xD1, 0x0C, the 4-byte little-endian length of
\* the publisher id's UTF-8 bytes, those bytes, the 16-byte DataSetClassId,
\* 0x01, the writer id (2 bytes LE), 0x01 (one Variant DataSet message without
\* sequence number), the field count (2 bytes LE), then per field a type tag and
\* the encoded scalar, and nothing else.
C12_InteropLayout ==
    ds_stage = "interop"
    => LET n == TextLen(publisher_id.d)
           b == ds_bytes
           fields == ReadVariantFields(b, Len(ds_msg.fields), n + 28, <<>>)
       IN /\ Len(b) >= n + 28
          /\ SubSeq(b, 1, 2) = <<209, 12>>
          /\ LE16At(b, 2) = n /\ SubSeq(b, 5, 6) = <<0, 0>>
          /\ Utf8Decode(SubSeq(b, 7, 6 + n)) = publisher_id.d
          /\ SubSeq(b, n + 7, n + 22)
               = <<148, 151, 231, 234, 247, 26, 150, 79, 132, 1, 64, 150, 205, 29, 137, 8>>
          /\ b[n + 23] = 1
          /\ LE16At(b, n + 23) = ds_msg.dataset_writer_id
          /\ b[n + 26] = 1
          /\ LE16At(b, n + 26) = Len(ds_msg.fields)
          /\ fields.st = "ok"
          /\ fields.fields = [i \in 1..Len(ds_msg.fields) |->
                                [value |-> ds_msg.fields[i].value,
                                 type_id |-> ds_msg.fields[i].type_id]]
          /\ fields.off = Len(b)

C12_Witness ==
    /\ ds_stage = "interop"
    /\ publisher_id = Str(<<69, 83, 80, 51, 50>>) /\ ds_msg.dataset_writer_id = 1000
    /\ ds_bytes = <<209, 12, 5, 0, 0, 0, 69, 83, 80, 51, 50,
                    148, 151, 231, 234, 247, 26, 150, 79, 132, 1, 64, 150, 205, 29, 137, 8,
                    1, 232, 3, 1, 1, 0, 10, 0, 0, 204, 65>>

\* the narrowest signed type whose two's complement range holds v (Int64 when
\* none of the narrower ones does), and the wire type of each kind of value
NarrowestSigned(v) ==
    IF Fits(v, 1, TRUE) THEN T_SBYTE
    ELSE IF Fits(v, 2, TRUE) THEN T_INT16
    ELSE IF Fits(v, 4, TRUE) THEN T_INT32
    ELSE T_INT64
ExpectedType(v) ==
    CASE v.k = "bool" -> T_BOOLEAN
      [] v.k = "int" -> NarrowestSigned(v)
      [] v.k = "float" -> T_FLOAT
      [] v.k = "str" -> T_STRING
      [] v.k = "bytes" -> T_BYTESTRING
      [] OTHER -> T_STRING

\* C13 as stated: from_python maps booleans to Boolean, integers to the
\* narrowest signed type (Int64 otherwise), floats to Float, text to String,
\* bytes to ByteString, anything else to String, and every integer fits the
\* range of the type it is mapped to.
C13_InferredTypeFits ==
    src = "inferred"
    => /\ typ = ExpectedType(val)
       /\ val.k = "int" => Fits(val, Width(typ), TRUE)

\* C13 amended: the same mapping; an integer within -2^63..2^63-1 fits the
\* range of the type it is mapped to, and an integer outside that range is
\* mapped to Int64 although Int64 cannot hold it.
C13_InferredTypeFits64 ==
    src = "inferred"
    => /\ typ = ExpectedType(val)
       /\ (val.k = "int" /\ Fits(val, 8, TRUE)) => Fits(val, Width(typ), TRUE)
       /\ (val.k = "int" /\ ~Fits(val, 8, TRUE)) => typ = T_INT64
       /\ val = Bool(TRUE) => typ = T_BOOLEAN
       /\ val = Num(42) => typ = T_SBYTE
       /\ val = Num(200) => typ = T_INT16

C13_Witness ==
    /\ src = "inferred" /\ val = Wide(FALSE, <<128, 0, 0, 0, 0, 0, 0, 0>>)
    /\ typ = T_INT64 /\ ~Fits(val, 8, TRUE)

\* the status code of the value a JSON payload entry was made from
StatusOf(v) == IF v.k = "DataValue" THEN v.status_code ELSE GOOD

\* C14 as stated: in the dictionary to_dict produces, StatusCode is absent when
\* the two most significant bits of the 32-bit status are 00 (Good), present
\* with the status value otherwise; Value and SourceTimestamp are always there.
C14_StatusCodeAbsentIffGoodClass ==
    dv_stage = "json"
    => /\ {"Value", "SourceTimestamp"} \subseteq DOMAIN dv_out
       /\ is_good(StatusOf(dv_in)) => "StatusCode" \notin DOMAIN dv_out
       /\ ~is_good(StatusOf(dv_in))
            => ("StatusCode" \in DOMAIN dv_out /\ dv_out.StatusCode = StatusOf(dv_in))

\* C14 amended: StatusCode is absent exactly when the status code equals
\* StatusCode.GOOD (0), and present with the status value for every other code,
\* Good-class codes with a non-zero sub-code included.
C14_StatusCodeAbsentIffZero ==
    dv_stage = "json"
    => /\ {"Value", "SourceTimestamp"} \subseteq DOMAIN dv_out
       /\ DOMAIN dv_out \subseteq {"Value", "SourceTimestamp", "StatusCode"}
       /\ StatusOf(dv_in) = Num(0) => "StatusCode" \notin DOMAIN dv_out
       /\ StatusOf(dv_in) # Num(0)
            => ("StatusCode" \in DOMAIN dv_out /\ dv_out.StatusCode = StatusOf(dv_in))

C14_Witness ==
    /\ dv_stage = "json" /\ dv_in.k = "DataValue"
    /\ dv_in.status_code = Wide(FALSE, <<171, 0, 0>>) /\ is_good(dv_in.status_code)
    /\ "StatusCode" \in DOMAIN dv_out /\ dv_out.StatusCode = dv_in.status_code

\* C15: for a type tag without a decoder (Guid = 14, or any tag outside 1..15)
\* decode_value fails with the unsupported-type error, whatever the buffer and
\* the offset, and returns neither a value nor an offset.
C15_UnknownTypeFails ==
    (src = "received" /\ typ \notin ((1..13) \cup {15}))
    => /\ res.st = "raise" /\ res.why = "unsupported type"
       /\ res.v = NoneV /\ res.off = 0 - 1
       /\ res.rd = 0

C15_Witness ==
    /\ src = "received" /\ typ = 14 /\ off = 0
    /\ buf = <<2, 0, 0, 0, 65>>
    /\ res.st = "raise" /\ res.why = "unsupported type"

\* the two sequence numbers a sent full-mode message carries
WireNet(e) == LE16At(e.payload, 1 + PublisherIdLen(publisher_id) + 7)
WireDs(e) == LE16At(e.payload, 1 + PublisherIdLen(publisher_id) + 9 + 3 + 2)

\* C16: sharing one UADPPublisher between unserialized publish calls is unsafe.
\* A call that overlaps no other call puts its own count in both fields; a
\* message whose group-header number and DataSetMessage number differ, and two
\* messages with the same number, come only from calls that overlapped; both
\* anomalies do occur (C16_Witness).
C16_OnlyOverlapBreaksNumbers ==
    \A i \in 1..Len(sent) :
        /\ ~sent[i].overlap
             => (WireNet(sent[i]) = sent[i].own /\ WireDs(sent[i]) = sent[i].own)
        /\ WireNet(sent[i]) # WireDs(sent[i]) => sent[i].overlap
        /\ \A j \in 1..Len(sent) :
             (i # j /\ WireNet(sent[i]) = WireNet(sent[j]))
             => (sent[i].overlap \/ sent[j].overlap)

C16_Witness ==
    /\ \E i, j \in 1..Len(sent) :
          /\ sent[i].caller # sent[j].caller
          /\ WireNet(sent[i]) = WireNet(sent[j]) /\ WireDs(sent[i]) = WireDs(sent[j])
          /\ WireNet(sent[i]) = WireDs(sent[i])
    /\ \E k \in 1..Len(sent) : WireNet(sent[k]) # WireDs(sent[k])

\* the mask byte of an encoded UADPDataValue, and whether one of its bits is set
MaskOf(b) == b[1]
MaskBit(b, n) == IF BitAnd(MaskOf(b), n) # 0 THEN 1 ELSE 0
\* the unsigned little-endian integer in b[from + 1 .. from + w]
LEAt(b, from, w) == Strip(Reverse(SubSeq(b, from + 1, from + w)))

\* C17: UADPDataValue.encode(include_status, include_timestamp) emits a mask
\* byte with bit 0 set, bit 1 set iff include_status and status_code is not
\* StatusCode.GOOD, bit 2 set iff include_timestamp, no other bit; then the
\* value, the status in 4 bytes if bit 1, the timestamp in 8 bytes if bit 2,
\* so the length is 1 + value width + 4*bit1 + 8*bit2.
C17_DataValueMask ==
    dv_stage \in {"encoded", "roundtrip"}
    => LET w == SizeOf(dv_in.value, dv_in.type_id)
           b1 == MaskBit(dv_out, 2)
           b2 == MaskBit(dv_out, 4)
       IN /\ dv_out # Raise
          /\ MaskOf(dv_out) \in 0..7
          /\ MaskBit(dv_out, 1) = 1
          /\ b1 = 1 <=> (dv_opts[1] /\ dv_in.status_code # GOOD)
          /\ b2 = 1 <=> dv_opts[2]
          /\ Len(dv_out) = 1 + w + 4 * b1 + 8 * b2
          /\ SubSeq(dv_out, 2, 1 + w) = encode_value(dv_in.value, dv_in.type_id)
          /\ b1 = 1 => LEAt(dv_out, 1 + w, 4) = dv_in.status_code.d
          /\ (b2 = 1 /\ dv_in.source_timestamp # NoneV)
               => LEAt(dv_out, 1 + w + 4 * b1, 8) = dv_in.source_timestamp.d

C17_Witness ==
    /\ dv_stage = "encoded" /\ dv_opts = <<TRUE, TRUE>>
    /\ dv_in.value = Num(7) /\ dv_in.type_id = T_UINT16
    /\ dv_in.status_code = BAD_SENSOR_FAILURE /\ dv_in.source_timestamp = Num(5)
    /\ dv_out = <<7, 7, 0, 0, 0, 177, 128, 5, 0, 0, 0, 0, 0, 0, 0>>

\* C18: for a UADPDataValue d with an integer, boolean or text value, any
\* 32-bit status code and an explicit 64-bit source timestamp,
\* decode(d.encode(True, True), d.type_id, 0) gives back the value, the status
\* code and the timestamp, and an offset equal to the encoded length.
C18_DataValueRoundTrip ==
    (dv_stage = "roundtrip" /\ dv_opts = <<TRUE, TRUE>> /\ dv_in.source_timestamp # NoneV)
    => /\ dv_back.st = "ok"
       /\ dv_back.dv.value = dv_in.value
       /\ dv_back.dv.type_id = dv_in.type_id
       /\ dv_back.dv.status_code = dv_in.status_code
       /\ dv_back.dv.source_timestamp = dv_in.source_timestamp
       /\ dv_back.off = Len(dv_out)

C18_Witness ==
    /\ dv_stage = "roundtrip" /\ dv_opts = <<TRUE, TRUE>>
    /\ dv_out = <<7, 7, 0, 0, 0, 177, 128, 5, 0, 0, 0, 0, 0, 0, 0>>
    /\ dv_back.st = "ok" /\ dv_back.off = 15
    /\ dv_back.dv = UADPDataValue(Num(7), T_UINT16, BAD_SENSOR_FAILURE, Num(5))

\* bytes the fields of a DataSetMessage take, each with tag more bytes in front
RECURSIVE FieldsSize(_, _)
FieldsSize(fields, tag) ==
    IF fields = <<>> THEN 0
    ELSE tag + SizeOf(Head(fields).value, Head(fields).type_id) + FieldsSize(Tail(fields), tag)

\* C19: every output of UADPDataSetMessage.encode() and encode_with_types()
\* starts with Flags1 (bit 0 = 1, bits 1-2 = the field encoding of the payload
\* that follows: 1 RawData for encode, 0 Variant for encode_with_types, bit 3 =
\* 1, bits 4-7 = 0), Flags2 = 0 and the low 16 bits of the sequence number,
\* little-endian. With no fields encode() emits these 4 bytes only, and
\* encode_with_types() these 4 bytes and a zero field count.
C19_DataSetHeader ==
    ds_stage \in {"raw", "variant", "read"}
    => LET flags1 == ds_bytes[1]
           raw == ds_stage = "raw"
       IN /\ ds_bytes # Raise /\ Len(ds_bytes) >= 4
          /\ flags1 % 2 = 1
          /\ (flags1 \div 2) % 4 = (IF raw THEN 1 ELSE 0)
          /\ (flags1 \div 8) % 2 = 1
          /\ flags1 \div 16 = 0
          /\ ds_bytes[2] = 0
          /\ LE16At(ds_bytes, 2) = ds_msg.sequence_number % 65536
          /\ raw => Len(ds_bytes) = 4 + FieldsSize(ds_msg.fields, 0)
          /\ ~raw => /\ Len(ds_bytes) = 6 + FieldsSize(ds_msg.fields, 1)
                     /\ LE16At(ds_bytes, 4) = Len(ds_msg.fields)
          /\ ds_msg.fields = <<>>
               => ds_bytes = SubSeq(ds_bytes, 1, 4) \o (IF raw THEN <<>> ELSE <<0, 0>>)

C19_Witness ==
    /\ ds_stage = "variant" /\ ds_msg.fields = <<>> /\ ds_msg.sequence_number = 65535
    /\ ds_bytes = <<9, 0, 255, 255, 0, 0>>

\* what encode writes after the PublisherId
AfterPublisherId(m) == Cat3(EncGroupHeader(m), EncPayloadHeader(m), EncPayload(m))

\* C20: UADPNetworkMessage.encode() writes one selector byte followed by the
\* id in the matching width: String (4) and the length-prefixed UTF-8 text for
\* a text id; for an integer id Byte (0) in 1 byte if id <= 255, UInt16 (1) in
\* 2 bytes if id <= 65535, UInt32 (2) in 4 bytes otherwise; and whenever the
\* PublisherIdEnabled bit is set in the flags byte, a selector and a value are
\* there.
C20_PublisherIdSelection ==
    stage = "encoded"
    => LET pid == msg.publisher_id IN
       /\ wire # Raise
       /\ BitAnd(wire[1], PUBLISHER_ID_ENABLED) # 0
           => /\ \/ /\ pid.k = "str"
                    /\ wire[2] = PUBLISHER_ID_STRING
                    /\ LEAt(wire, 2, 4) = Num(Len(Utf8Encode(pid.d))).d
                    /\ SubSeq(wire, 7, 6 + Len(Utf8Encode(pid.d))) = Utf8Encode(pid.d)
                 \/ /\ IsInt(pid) /\ IntLe(AsInt(pid), Num(255))
                    /\ wire[2] = PUBLISHER_ID_BYTE
                    /\ LEAt(wire, 2, 1) = AsInt(pid).d /\ ~AsInt(pid).neg
                 \/ /\ IsInt(pid) /\ ~IntLe(AsInt(pid), Num(255))
                    /\ IntLe(AsInt(pid), Num(65535))
                    /\ wire[2] = PUBLISHER_ID_UINT16
                    /\ LEAt(wire, 2, 2) = AsInt(pid).d
                 \/ /\ IsInt(pid) /\ ~IntLe(AsInt(pid), Num(65535))
                    /\ wire[2] = PUBLISHER_ID_UINT32
                    /\ LEAt(wire, 2, 4) = AsInt(pid).d
              /\ Len(wire) = 1 + PublisherIdLen(AsInt(pid)) + Len(AfterPublisherId(msg))

\* the publisher id as encode_minimal writes it: the bytes of its text, cut
\* at 16, unless it is an integer up to 255
MinimalIdText(pid) ==
    LET text == Utf8Encode(PyStr(pid).d) IN SubSeq(text, 1, Min(16, Len(text)))
MinimalIdLen(pid) ==
    IF IsInt(pid) /\ IntLe(AsInt(pid), Num(255)) THEN 2 ELSE 5 + Len(MinimalIdText(pid))
\* the layout of a minimal frame b for message m
MinimalLayout(b, m) ==
    LET pid == m.publisher_id
        n == MinimalIdLen(pid)
    IN /\ b # Raise
       /\ b[1] = 17
       /\ IF IsInt(pid) /\ IntLe(AsInt(pid), Num(255))
          THEN b[2] = 0 /\ LEAt(b, 2, 1) = AsInt(pid).d
          ELSE /\ b[2] = 4
               /\ LEAt(b, 2, 4) = Num(Len(MinimalIdText(pid))).d
               /\ Len(MinimalIdText(pid)) <= 16
               /\ SubSeq(b, 7, 1 + n) = MinimalIdText(pid)
       /\ b[2 + n] = Len(m.dataset_messages)
       /\ SubSeq(b, 3 + n, Len(b)) = MessageBytes(m.dataset_messages)

\* C21 as stated: encode_minimal() emits the flags byte 0x11, the publisher-id
\* tag and value (a text id cut to at most 16 UTF-8 bytes, its length prefix
\* the number of bytes written), one byte with the DataSetMessage count, then
\* the DataSetMessages' encode() outputs, nothing else, for any number of
\* DataSetMessages.
C21_MinimalLayout ==
    wire_min # <<>> => MinimalLayout(wire_min, msg)

\* C21 as the code has it: the same layout for up to 255 DataSetMessages; with
\* more, the count does not fit its byte and encode_minimal raises.
C21_MinimalLayoutUpTo255 ==
    wire_min # <<>>
    => IF Len(msg.dataset_messages) <= 255 THEN MinimalLayout(wire_min, msg)
       ELSE wire_min = Raise

C21_Witness ==
    /\ msg.publisher_id = Str([i \in 1..17 |-> 65]) /\ Len(msg.dataset_messages) = 2
    /\ Len(wire_min) >= 23
    /\ SubSeq(wire_min, 1, 6) = <<17, 4, 16, 0, 0, 0>>
    /\ wire_min[22] = 65 /\ wire_min[23] = 2

\* C22: for every NetworkMessage with a text or unsigned-integer publisher id,
\* any number of DataSetMessages and any setting of include_group_header and
\* include_payload_header, encode_minimal() is not longer than encode().
C22_MinimalNeverLarger ==
    (stage = "encoded" /\ wire_min # <<>> /\ wire # Raise /\ wire_min # Raise)
    => Len(wire_min) <= Len(wire)

\* two DataSetMessages alike in writer id, sequence number and the ordered
\* (value, type) list
SameButNames(a, b) ==
    /\ a.dataset_writer_id = b.dataset_writer_id /\ a.sequence_number = b.sequence_number
    /\ Len(a.fields) = Len(b.fields)
    /\ \A n \in 1..Len(a.fields) :
          a.fields[n].value = b.fields[n].value /\ a.fields[n].type_id = b.fields[n].type_id
\* b is a with the fields at i and j in exchanged places
Exchanged(a, b, i, j) ==
    /\ a.dataset_writer_id = b.dataset_writer_id /\ a.sequence_number = b.sequence_number
    /\ i \in 1..Len(a.fields) /\ j \in 1..Len(a.fields) /\ i # j
    /\ b.fields = Exchange(a.fields, i, j)
\* whether both messages have been encoded the same way, and to the same bytes
BothRaw == ds_stage = "raw" /\ twin.raw # <<>>
BothVariant == ds_stage = "variant" /\ twin.variant # <<>>
ValueBytes(f) == encode_value(f.value, f.type_id)

\* the part of C23 about names: same writer id, sequence number and ordered
\* (value, type) list give the same bytes, whatever the fields are called
NamesOffWire ==
    SameButNames(ds_msg, twin.msg)
    => /\ BothRaw => ds_bytes = twin.raw
       /\ BothVariant => ds_bytes = twin.variant

\* C23 as stated: field names never reach the wire, and exchanging two fields
\* of different value changes the output of encode() and of
\* encode_with_types().
C23_NamesNotOrderMatters ==
    /\ NamesOffWire
    /\ \A i, j \in 1..Len(ds_msg.fields) :
          (Exchanged(ds_msg, twin.msg, i, j)
            /\ ds_msg.fields[i].value # ds_msg.fields[j].value)
          => /\ BothRaw => ds_bytes # twin.raw
             /\ BothVariant => ds_bytes # twin.variant

\* C23 as the code has it: field names never reach the wire; exchanging two
\* fields changes the Variant output when they differ in type or in value
\* bytes, and the RawData output when their value bytes differ and are equally
\* long. Values of different width can trade places unseen in RawData.
C23_NamesNotEncodingOrderMatters ==
    /\ NamesOffWire
    /\ \A i, j \in 1..Len(ds_msg.fields) :
          Exchanged(ds_msg, twin.msg, i, j)
          => LET f == ds_msg.fields[i]
                 g == ds_msg.fields[j]
             IN /\ (BothVariant /\ (f.type_id # g.type_id \/ ValueBytes(f) # ValueBytes(g)))
                   => ds_bytes # twin.variant
                /\ (BothRaw /\ ValueBytes(f) # ValueBytes(g)
                            /\ Len(ValueBytes(f)) = Len(ValueBytes(g)))
                   => ds_bytes # twin.raw

C23_Witness ==
    /\ BothRaw /\ SameButNames(ds_msg, twin.msg)
    /\ Len(ds_msg.fields) = 2
    /\ ds_msg.fields[1].name = "temperature" /\ twin.msg.fields[1].name = "t"
    /\ ds_msg.fields[1].value = Num(257) /\ ds_msg.fields[2].value = Str(<<65>>)
    /\ ds_bytes = <<11, 0, 4, 3, 1, 1, 1, 0, 0, 0, 65>>
    /\ twin.raw = ds_bytes

PublishNames == {"publish", "publish_minimal"}

\* C25: a publish or publish_minimal call made while connected is False
\* returns False, does not call the transport's publish, and leaves
\* message_count and bytes_sent as they were, whatever calls came before.
C25_DisconnectedPublishNoEffect ==
    [][(~connected /\ op'.name \in PublishNames)
       => /\ ret' = "False" /\ ~op'.called
          /\ mqtt' = mqtt /\ message_count' = message_count /\ bytes_sent' = bytes_sent
          /\ connected' = connected]_vars

C25_Witness ==
    /\ ~connected /\ op = Call("publish_minimal", FALSE, FALSE) /\ ret = "False"
    /\ message_count = 2 /\ mqtt.calls = 2 /\ mqtt.delivered = 1 /\ bytes_sent = mqtt.bytes

\* C26: get_stats() reports messages_sent equal to the number of publish /
\* publish_minimal calls that returned True, and bytes_sent equal to the sum of
\* the payload lengths of those calls.
C26_StatsCountSent ==
    cls = "UADPPublisher"
    => /\ get_stats.messages_sent = mqtt.delivered
       /\ get_stats.bytes_sent = mqtt.bytes

\* C30: for the publishers and the subscriber, connected is True exactly when
\* the most recent connect() or disconnect() call was a connect() that
\* returned True: it is False after a connect() that returned False and after
\* every disconnect(), True after a connect() that returned True, and no other
\* call changes it.
C30_ConnectedTracksLastCall ==
    /\ [](/\ op.name = "connect" => (connected <=> ret = "True")
          /\ op.name = "disconnect" => ~connected
          /\ feed.call = "connect" => (sub.connected <=> feed.ret = "True")
          /\ feed.call = "disconnect" => ~sub.connected)
    /\ [][/\ op'.name \notin {"connect", "disconnect"} => connected' = connected
          /\ feed'.call \notin {"connect", "disconnect"}
               => sub'.connected = sub.connected]_vars

\* C28: after any deliveries to _mqtt_callback, with any registered
\* callbacks (callbacks that raise included), received = decoded + errors,
\* received is the number of deliveries and bytes_received the sum of the
\* delivered payload lengths.
C28_SubscriberStatsBalance ==
    /\ sub.received = sub.decoded + sub.errors
    /\ sub.received = feed.deliveries
    /\ sub.bytes_received = feed.bytes

Times(log, cb) == Cardinality({i \in DOMAIN log : log[i].cb = cb})

\* C29: for each delivered payload the raw callback, if registered, is invoked
\* first with the payload; then exactly one outcome: the message callback (if
\* registered) is invoked with the decoded message iff decode returned one,
\* otherwise the error callback (if registered) with the payload; never both,
\* and never the message callback for a payload whose version is not 1.
C29_DispatchOrder ==
    feed.call = "_mqtt_callback"
    => LET d == net_decode(feed.last)
           log == feed.log
       IN /\ sub.on_raw # "none" => (log # <<>> /\ log[1] = Invoked("raw", feed.last))
          /\ \A i \in DOMAIN log : log[i].cb = "raw" => (i = 1 /\ sub.on_raw # "none")
          /\ Times(log, "message") = IF d.st = "ok" /\ sub.on_message # "none" THEN 1 ELSE 0
          /\ Times(log, "error") = IF d.st # "ok" /\ sub.on_error # "none" THEN 1 ELSE 0
          /\ \A i \in DOMAIN log :
                 /\ log[i].cb = "message" => log[i].arg = d.m
                 /\ log[i].cb = "error" => log[i].arg = feed.last
          /\ (Len(feed.last) >= 1 /\ version_of(feed.last[1]) # 1)
                 => Times(log, "message") = 0

\* message number n was used by a publish call that handed its message to
\* the transport, and the transport took it
Transmitted(n) == n \in 1..message_count /\ n \notin mqtt.lost
\* how many of the numbers i..j were transmitted
SentIn(i, j) == (j - i + 1) - Cardinality({n \in mqtt.lost : i <= n /\ n <= j})

\* C27: with serialized publish calls message_count never decreases and grows
\* by exactly 1 per publish attempt made while connected; a transmitted
\* message carries message_count mod 65536 in its group header and in its
\* DataSetMessage header; and no two of any 65536 consecutively transmitted
\* messages carry the same on-wire number (two numbers below 2 * 65536 meet
\* on the wire only at distance 65536).
C27_SingleWriterSequence ==
    /\ [][/\ message_count' >= message_count
          /\ message_count' - message_count =
                IF op'.name \in PublishNames /\ connected THEN 1 ELSE 0]_vars
    /\ [](/\ (op.name = "publish" /\ ret = "True")
             => LET m == BuildMessage(publisher_id, message_count, 1000, WrapDict) IN
                /\ LE16At(mqtt.last, GroupHeaderAt(m) + 7) = message_count % 65536
                /\ LE16At(mqtt.last, PayloadAt(m) + 2) = message_count % 65536
          /\ \A i \in 1..(message_count - 65536) :
                (Transmitted(i) /\ Transmitted(i + 65536))
                => SentIn(i, i + 65536) > 65536)

====
